---- MODULE Spec2Model ----
(***************************************************************************)
(* A model of the question-parsing pipeline of the Takken PDF extractor    *)
(* (src/question-parser.js, QuestionParser) with the configuration tables  *)
(* of src/config.js and the helpers of Utils (src/unnamed/part_002).       *)
(*                                                                         *)
(* Text.  A JavaScript string is a sequence of characters; a character is  *)
(* a TLA+ string naming it: a printable ASCII character stands for itself  *)
(* ("1", ".", "Q"), every other character is named by its code point       *)
(* ("U554F" is U+554F, "U0020" the space, "U000A" the line feed).  The     *)
(* regular expressions of the source are hand-written scanners over these  *)
(* sequences, with the backtracking order of the JavaScript engine         *)
(* (greedy quantifiers longest first, lazy ones shortest first).           *)
(*                                                                         *)
(* Numbers.  A confidence is a JavaScript double in the source.  The model *)
(* keeps it in fixed point: CONF_UNIT units per confidence point, quality  *)
(* scores in Q_UNIT units per 1.0, products rounded down.                  *)
(*                                                                         *)
(* Later definitions win.  QuestionParser is one object literal in which   *)
(* detectQuestionsAdaptive, detectWithPattern and selectBestPattern are    *)
(* each written twice; JavaScript keeps the last property of a name, so    *)
(* the model follows the second definitions (lines 1741-1972).             *)
(***************************************************************************)
EXTENDS Integers, Sequences, FiniteSets, TLC

(***************************************************************************)
(* Characters                                                              *)
(***************************************************************************)
cSP == "U0020"
cNL == "U000A"
cTAB == "U0009"
cISP == "U3000"
cMON == "U554F"
cDAI == "U984C"
cDAINO == "U7B2C"
cFDOT == "UFF0E"
cKUTEN == "U3002"
cFCOLON == "UFF1A"
cLB == "U3010"
cRB == "U3011"
cMARU == "U3007"
cWMARU == "U25CB"
cBATSU == "U00D7"
cKA == "U3042"
cKOTAE == "U7B54"
cE == "U3048"
cKAI == "U89E3"
cSETSU == "U8AAC"
cSEI == "U6B63"

NULL == "null"

Digits == {"0", "1", "2", "3", "4", "5", "6", "7", "8", "9"}

IsDigit(c) == c \in Digits

\* \s of a JavaScript regular expression, over the characters of the model
IsSpace(c) == c \in {cSP, cNL, cTAB, cISP}

DigitVal(c) ==
    CASE c = "0" -> 0 [] c = "1" -> 1 [] c = "2" -> 2 [] c = "3" -> 3
      [] c = "4" -> 4 [] c = "5" -> 5 [] c = "6" -> 6 [] c = "7" -> 7
      [] c = "8" -> 8 [] c = "9" -> 9

(***************************************************************************)
(* String helpers (String.prototype of JavaScript)                         *)
(***************************************************************************)
Rep(c, n) == [i \in 1..n |-> c]

\* s.substring(from0, to0) with 0-based bounds clipped to the string
Substring(s, from0, to0) ==
    LET a == IF from0 > Len(s) THEN Len(s) ELSE from0
        b == IF to0 > Len(s) THEN Len(s) ELSE to0
    IN  IF b <= a THEN << >> ELSE SubSeq(s, a + 1, b)

\* the rest of s from the 1-based position i
From(s, i) == IF i > Len(s) THEN << >> ELSE SubSeq(s, i, Len(s))

\* kw occurs in s at the 1-based position i
StartsWithAt(s, i, kw) ==
    /\ i >= 1
    /\ i + Len(kw) - 1 <= Len(s)
    /\ \A k \in 1..Len(kw) : s[i + k - 1] = kw[k]

\* the least element of a set of positive integers, 0 when it is empty
Least(S) == IF S = {} THEN 0 ELSE CHOOSE n \in S : \A m \in S : n <= m

\* the least position in from..to at which P holds, 0 when there is none
FirstPosition(P(_), from, to) == Least({n \in from..to : P(n)})

\* s.includes(kw)
Includes(s, kw) == \E i \in 1..(Len(s) - Len(kw) + 1) : StartsWithAt(s, i, kw)

\* s.endsWith(kw)
EndsWith(s, kw) == Len(kw) <= Len(s) /\ StartsWithAt(s, Len(s) - Len(kw) + 1, kw)

\* (s.match(new RegExp(kw, 'g')) || []).length for a literal kw: the number of
\* non-overlapping occurrences, scanned left to right
RECURSIVE CountFrom(_, _, _)
CountFrom(s, i, kw) ==
    LET After(h) == IF h = 0 THEN 0 ELSE 1 + CountFrom(s, h + Len(kw), kw)
    IN  After(FirstPosition(LAMBDA n : StartsWithAt(s, n, kw), i, Len(s)))

CountMatches(s, kw) == CountFrom(s, 1, kw)

\* the number of leading characters of s, from position i, that satisfy P
RunLen(P(_), s, i) ==
    IF i > Len(s) THEN 0
    ELSE Least({n \in i..(Len(s) + 1) : n = Len(s) + 1 \/ ~P(s[n])}) - i

\* s.trim()
TrimLeft(s) == From(s, 1 + RunLen(IsSpace, s, 1))

RECURSIVE TrimRight(_)
TrimRight(s) ==
    IF s = << >> \/ ~IsSpace(s[Len(s)]) THEN s ELSE TrimRight(SubSeq(s, 1, Len(s) - 1))

Trim(s) == TrimRight(TrimLeft(s))

\* parseInt(d) of a non-empty run of decimal digits
RECURSIVE ParseInt(_)
ParseInt(d) ==
    IF d = << >> THEN 0 ELSE 10 * ParseInt(SubSeq(d, 1, Len(d) - 1)) + DigitVal(d[Len(d)])

\* parts.join(sep)
RECURSIVE Join(_, _)
Join(parts, sep) ==
    IF parts = << >> THEN << >>
    ELSE IF Len(parts) = 1 THEN parts[1]
    ELSE parts[1] \o sep \o Join(Tail(parts), sep)

\* text.split(/\n+/): the pieces between runs of line feeds (an empty first or
\* last piece where the text starts or ends with a line feed)
RECURSIVE SplitLines(_)
SplitLines(s) ==
    LET Cut(n) ==
            IF n = Len(s) THEN << s >>
            ELSE << SubSeq(s, 1, n) >>
                 \o SplitLines(From(s, n + RunLen(LAMBDA c : c = cNL, s, n + 1) + 1))
    IN  Cut(RunLen(LAMBDA c : c # cNL, s, 1))

\* text.split('\n')
RECURSIVE SplitNL(_)
SplitNL(s) ==
    LET Cut(n) ==
            IF n = Len(s) THEN << s >>
            ELSE << SubSeq(s, 1, n) >> \o SplitNL(From(s, n + 2))
    IN  Cut(RunLen(LAMBDA c : c # cNL, s, 1))

\* array.filter(P)
FilterSeq(P(_), seq) == SelectSeq(seq, P)

\* array.map(F)
MapSeq(F(_), seq) == [i \in 1..Len(seq) |-> F(seq[i])]

(***************************************************************************)
(* CONFIG.PARSING.questionNumberPatterns: the twelve numbering patterns.   *)
(* Every pattern has the shape                                             *)
(*     ^ lead (digits) mid sep (body, lazy) (?= look | $)                  *)
(* and is matched as the engine matches it: the digit run longest first,   *)
(* then the separator run longest first, then the body shortest first.     *)
(***************************************************************************)
NumPatterns == 12

\* the declared confidence of a pattern, times 100
PatternConfidence100(p) ==
    CASE p = 1 -> 95 [] p = 2 -> 90 [] p = 3 -> 80 [] p = 4 -> 85
      [] p = 5 -> 90 [] p = 6 -> 75 [] p = 7 -> 85 [] p = 8 -> 85
      [] p = 9 -> 90 [] p = 10 -> 95 [] p = 11 -> 70 [] p = 12 -> 90

\* the m flag of the pattern as declared (only the last one has it)
PatternMultiline(p) == p = 12

IsDotSep(c) == c \in {cFDOT, "."} \/ IsSpace(c)

\* the position after the lead of pattern p at position i, 0 when it fails
LeadEnd(p, s, i, ci) ==
    CASE p = 1 ->
           IF i <= Len(s) /\ s[i] = cMON
           THEN LET j == IF i + 1 <= Len(s) /\ s[i + 1] = cDAI THEN i + 2 ELSE i + 1
                IN  j + RunLen(IsSpace, s, j)
           ELSE 0
      [] p = 2 ->
           IF i <= Len(s) /\ s[i] = cDAINO THEN i + 1 + RunLen(IsSpace, s, i + 1) ELSE 0
      [] p = 4 -> IF i <= Len(s) /\ s[i] = "(" THEN i + 1 ELSE 0
      [] p = 5 -> IF i <= Len(s) /\ s[i] = cLB THEN i + 1 ELSE 0
      [] p = 6 ->
           IF i <= Len(s) /\ (s[i] = "Q" \/ (ci /\ s[i] = "q"))
           THEN i + 1 + RunLen(IsDotSep, s, i + 1)
           ELSE 0
      [] OTHER -> i

\* the bounds {min, max} of the digit run of pattern p (0: no upper bound)
DigitsMin(p) == CASE p = 9 -> 4 [] p = 10 -> 5 [] p = 12 -> 3 [] OTHER -> 1

DigitsMax(p) == CASE p = 9 -> 6 [] p = 10 -> 5 [] p = 12 -> 4 [] OTHER -> 0

\* the position after the fixed part that follows the digits, 0 when it fails
MidEnd(p, s, i) ==
    LET Char(j, set) == IF j <= Len(s) /\ s[j] \in set THEN j + 1 ELSE 0
        SkipSpace == i + RunLen(IsSpace, s, i)
    IN  CASE p = 2 -> Char(SkipSpace, {cMON})
          [] p = 4 -> Char(i, {")"})
          [] p = 5 -> Char(i, {cRB})
          [] p = 7 -> Char(SkipSpace, {cFDOT, ".", cKUTEN})
          [] p = 8 -> Char(SkipSpace, {":", cFCOLON})
          [] OTHER -> i

\* the separator class of pattern p and the least number of separators
IsSep(p, c) ==
    CASE p \in {1, 2, 6} -> IsDotSep(c)
      [] p = 3 -> IsDotSep(c) \/ c = ")"
      [] p \in {4, 5, 7, 8, 11, 12} -> IsSpace(c)
      [] OTHER -> FALSE

SepMin(p) == IF p \in {3, 11, 12} THEN 1 ELSE 0

\* the body class: [^U+554F], [^U+7B2C], or the dot (no line feed without the s flag)
BodyCharOK(p, c, dotall) ==
    CASE p = 1 -> c # cMON
      [] p = 2 -> c # cDAINO
      [] OTHER -> dotall \/ c # cNL

\* ^ and $ of a regular expression at position j, with or without the m flag
AtLineStart(s, j, ml) == j = 1 \/ (ml /\ j - 1 <= Len(s) /\ s[j - 1] = cNL)

AtLineEnd(s, j, ml) == j = Len(s) + 1 \/ (ml /\ j <= Len(s) /\ s[j] = cNL)

\* the lookahead that ends the body of pattern p, at position j
LookOK(p, s, j, ml, ci) ==
    LET DigitsAt(a) == RunLen(IsDigit, s, a)
        SkipSpace(a) == a + RunLen(IsSpace, s, a)
        CharAt(b, set) == b <= Len(s) /\ s[b] \in set
        NumberThen(a, n, set) == n >= 1 /\ CharAt(SkipSpace(a + n), set)
        Closed(n, c) == n >= 1 /\ CharAt(j + 1 + n, {c})
        Look(d) ==
            CASE p = 1 ->
                   CharAt(j, {cMON}) /\ DigitsAt(SkipSpace(j + 1)) >= 1
              [] p = 2 ->
                   /\ CharAt(j, {cDAINO})
                   /\ LET AtNumber(a) == NumberThen(a, DigitsAt(a), {cMON})
                      IN  AtNumber(SkipSpace(j + 1))
              [] p = 3 -> d >= 1 /\ j + d <= Len(s) /\ (IsDotSep(s[j + d]) \/ s[j + d] = ")")
              [] p = 4 -> CharAt(j, {"("}) /\ Closed(DigitsAt(j + 1), ")")
              [] p = 5 -> CharAt(j, {cLB}) /\ Closed(DigitsAt(j + 1), cRB)
              [] p = 6 ->
                   /\ j <= Len(s) /\ (s[j] = "Q" \/ (ci /\ s[j] = "q"))
                   /\ DigitsAt(j + 1 + RunLen(IsDotSep, s, j + 1)) >= 1
              [] p = 7 -> NumberThen(j, d, {cFDOT, ".", cKUTEN})
              [] p = 8 -> NumberThen(j, d, {":", cFCOLON})
              [] p = 9 -> d >= 4
              [] p = 10 ->
                   \/ CharAt(j, {cBATSU, cMARU, cWMARU})
                   \/ StartsWithAt(s, j, << cKAI, cSETSU >>)
                   \/ StartsWithAt(s, j, << cKOTAE, cE >>)
                   \/ AtLineStart(s, j, ml) /\ DigitsAt(SkipSpace(j)) >= 5
              [] p = 11 ->
                   AtLineStart(s, j, ml) /\ d >= 1 /\ j + d <= Len(s) /\ IsSpace(s[j + d])
              [] p = 12 ->
                   AtLineStart(s, j, ml) /\ d \in {3, 4} /\ j + d <= Len(s) /\ IsSpace(s[j + d])
    IN  AtLineEnd(s, j, ml) \/ Look(DigitsAt(j))

\* the lazy body from position b: the least end j > b (exclusive) at which the
\* lookahead holds, every body character being in the body class; 0 when none
BodyEnd(p, s, j, ml, dotall, ci) ==
    LET last == j - 1 + RunLen(LAMBDA c : BodyCharOK(p, c, dotall), s, j - 1)
    IN  FirstPosition(LAMBDA e : LookOK(p, s, e, ml, ci), j, last)

NoMatch == [ok |-> FALSE, num |-> << >>, body |-> << >>, start |-> 0, end |-> 0]

\* the separator run, longest first: k separators after position m
RECURSIVE TrySep(_, _, _, _, _, _, _, _, _)
TrySep(p, s, i, numEnd, m, k, ml, dotall, ci) ==
    LET Ended(e) ==
            IF e # 0
            THEN [ok |-> TRUE, num |-> SubSeq(s, numEnd[1], numEnd[2] - 1),
                  body |-> SubSeq(s, m + k, e - 1), start |-> i, end |-> e]
            ELSE TrySep(p, s, i, numEnd, m, k - 1, ml, dotall, ci)
    IN  IF k < SepMin(p) THEN NoMatch
        ELSE Ended(BodyEnd(p, s, m + k + 1, ml, dotall, ci))

\* the separator run that follows the fixed part ending before position m
TrySepAfter(p, s, i, a, d, m, ml, dotall, ci) ==
    IF m = 0 THEN NoMatch
    ELSE TrySep(p, s, i, << a, a + d >>, m,
                RunLen(LAMBDA c : IsSep(p, c), s, m), ml, dotall, ci)

\* the digit run, longest first: d digits from position a
RECURSIVE TryDigits(_, _, _, _, _, _, _, _)
TryDigits(p, s, i, a, d, ml, dotall, ci) ==
    LET Kept(r) == IF r.ok THEN r ELSE TryDigits(p, s, i, a, d - 1, ml, dotall, ci)
    IN  IF d < DigitsMin(p) THEN NoMatch
        ELSE Kept(TrySepAfter(p, s, i, a, d, MidEnd(p, s, a + d), ml, dotall, ci))

\* pattern p at position i, its lead ending before position a (0: no lead)
MatchFrom(p, s, i, a, ml, dotall, ci) ==
    LET Capped(run) ==
            IF DigitsMax(p) # 0 /\ run > DigitsMax(p) THEN DigitsMax(p) ELSE run
    IN  IF a = 0 THEN NoMatch
        ELSE TryDigits(p, s, i, a, Capped(RunLen(IsDigit, s, a)), ml, dotall, ci)

\* pattern p matched at position i (a position where ^ holds)
MatchAt(p, s, i, ml, dotall, ci) == MatchFrom(p, s, i, LeadEnd(p, s, i, ci), ml, dotall, ci)

\* the position of the first match of pattern p at or after position i, or 0
NextMatch(p, s, i, ml, dotall) ==
    Least({n \in i..Len(s) : /\ AtLineStart(s, n, ml)
                             /\ MatchAt(p, s, n, ml, dotall, FALSE).ok})

\* [...text.matchAll(regex)] of a g pattern: the match at position h (0: none)
\* and those after it, each search resuming where the previous match ended
RECURSIVE MatchAllFrom(_, _, _, _, _)
MatchAndRest(p, s, r, ml, dotall) ==
    << r >> \o MatchAllFrom(p, s, NextMatch(p, s, r.end, ml, dotall), ml, dotall)

MatchAllFrom(p, s, h, ml, dotall) ==
    IF h = 0 THEN << >>
    ELSE MatchAndRest(p, s, MatchAt(p, s, h, ml, dotall, FALSE), ml, dotall)

MatchAll(p, s, ml, dotall) == MatchAllFrom(p, s, NextMatch(p, s, 1, ml, dotall), ml, dotall)


(***************************************************************************)
(* CONFIG.VALIDATION and CONFIG.PARSING scalars                            *)
(***************************************************************************)
questionNumberMin == 1

questionNumberMax == 99999

minQuestionLength == 20

\* CONFIG.PARSING.confidence
baseScore == 50

questionNumberFound == 20

answerFound == 20

explanationFound == 10

minThreshold == 20

maxThreshold == 95

(***************************************************************************)
(* Line detectors of the line-oriented scan (Tier 2)                       *)
(***************************************************************************)
\* the i flag: ASCII letters compare without case
UpperLetters == << "A", "B", "C", "D", "E", "F", "G", "H", "I", "J", "K", "L", "M",
                   "N", "O", "P", "Q", "R", "S", "T", "U", "V", "W", "X", "Y", "Z" >>

LowerLetters == << "a", "b", "c", "d", "e", "f", "g", "h", "i", "j", "k", "l", "m",
                   "n", "o", "p", "q", "r", "s", "t", "u", "v", "w", "x", "y", "z" >>

ToLowerChar(c) ==
    IF \E k \in 1..26 : UpperLetters[k] = c
    THEN LowerLetters[CHOOSE k \in 1..26 : UpperLetters[k] = c]
    ELSE c

\* s.toLowerCase()
ToLowerCase(s) == [i \in 1..Len(s) |-> ToLowerChar(s[i])]

\* kw occurs in s at position i, ASCII letters compared without case
StartsWithAtCI(s, i, kw) ==
    /\ i >= 1
    /\ i + Len(kw) - 1 <= Len(s)
    /\ \A k \in 1..Len(kw) : ToLowerChar(s[i + k - 1]) = ToLowerChar(kw[k])

\* the least i in from..to with P(i), 0 when there is none
RECURSIVE FirstIndex(_, _, _)
FirstIndex(P(_), from, to) ==
    IF from > to THEN 0 ELSE IF P(from) THEN from ELSE FirstIndex(P, from + 1, to)

MarkChars == {cMARU, cWMARU, cBATSU}

\* [U+2460-U+2464 1-5 U+30A2 U+30A4 U+30A6 U+30A8 U+30AA]: the choice tokens
ChoiceTokens == {"U2460", "U2461", "U2462", "U2463", "U2464",
                 "1", "2", "3", "4", "5",
                 "U30A2", "U30A4", "U30A6", "U30A8", "U30AA"}

\* [U+3007 U+25CB U+00D7 U+2460-U+2464 1-5]
InTextTokens == MarkChars \cup {"U2460", "U2461", "U2462", "U2463", "U2464",
                                "1", "2", "3", "4", "5"}

\* the positions after an answer introducer at position i, in the order the
\* alternatives are tried: kotae with and without its second character, kaitou,
\* seikai and, with the Latin ones, A before Answer
IntroducerEnds(s, i, latin) ==
    (IF StartsWithAt(s, i, << cKOTAE, cE >>) THEN << i + 2 >> ELSE << >>)
    \o (IF StartsWithAt(s, i, << cKOTAE >>) THEN << i + 1 >> ELSE << >>)
    \o (IF StartsWithAt(s, i, << cKAI, cKOTAE >>) THEN << i + 2 >> ELSE << >>)
    \o (IF StartsWithAt(s, i, << cSEI, cKAI >>) THEN << i + 2 >> ELSE << >>)
    \o (IF latin /\ StartsWithAtCI(s, i, << "A" >>) THEN << i + 1 >> ELSE << >>)
    \o (IF latin /\ StartsWithAtCI(s, i, << "A", "n", "s", "w", "e", "r" >>)
        THEN << i + 6 >> ELSE << >>)

\* after an introducer ending before position e: [:U+FF1A]? \s* (token); the
\* position of the token, 0 when the character there is not one
TokenAfter(s, e, tokens) ==
    LET At(b) == IF b <= Len(s) /\ s[b] \in tokens THEN b ELSE 0
        SkipSpace(a) == a + RunLen(IsSpace, s, a)
    IN  At(SkipSpace(IF e <= Len(s) /\ s[e] \in {":", cFCOLON} THEN e + 1 ELSE e))

\* the token position after the k-th introducer end (0: none)
TokenAfterEnd(s, ends, k, tokens) == IF k = 0 THEN 0 ELSE TokenAfter(s, ends[k], tokens)

\* the token position after the first introducer end that has one
TokenAfterEnds(s, ends, tokens) ==
    TokenAfterEnd(s, ends, Least({n \in 1..Len(ends) : TokenAfter(s, ends[n], tokens) # 0}),
                  tokens)

\* /(?:introducer)[:U+FF1A]?\s*([tokens])/i at position i: the token position
IntroducedAt(s, i, latin, tokens) == TokenAfterEnds(s, IntroducerEnds(s, i, latin), tokens)

\* the character of s at position i, NULL for position 0
CharAtOrNull(s, i) == IF i = 0 THEN NULL ELSE s[i]

IntroducedAtOrNone(s, i, latin, tokens) ==
    IF i = 0 THEN 0 ELSE IntroducedAt(s, i, latin, tokens)

\* the first capture of an unanchored /(?:introducer)...([tokens])/i on the line
IntroducedToken(s, latin, tokens) ==
    CharAtOrNull(s,
        IntroducedAtOrNone(s, Least({n \in 1..Len(s) : IntroducedAt(s, n, latin, tokens) # 0}),
                           latin, tokens))

\* /([tokens])\s*(?:ga-seikai|ga-tadashii|ga-ayamari)/i
InTextAt(s, i) ==
    LET Follows(b) ==
            \/ StartsWithAt(s, b, << "U304C", "U6B63", "U89E3" >>)
            \/ StartsWithAt(s, b, << "U304C", "U6B63", "U3057", "U3044" >>)
            \/ StartsWithAt(s, b, << "U304C", "U8AA4", "U308A" >>)
    IN  s[i] \in InTextTokens /\ Follows(i + 1 + RunLen(IsSpace, s, i + 1))

\* CONFIG.PARSING.answerPatterns[k].regex on a line: the first capture, or NULL
AnswerPatternCapture(k, s) ==
    CASE k = 1 -> IntroducedToken(s, TRUE, MarkChars)
      [] k = 2 ->
           IF Len(s) >= 1 /\ s[1] \in MarkChars /\ 1 + RunLen(IsSpace, s, 2) = Len(s)
           THEN s[1] ELSE NULL
      [] k = 3 -> IntroducedToken(s, FALSE, ChoiceTokens)
      [] k = 4 -> CharAtOrNull(s, Least({n \in 1..Len(s) : InTextAt(s, n)}))

\* the simple patterns of detectAnswer: the first mark of the line, the white
\* circle normalized
SimpleAnswer(line, i) ==
    IF i = 0 THEN NULL ELSE IF line[i] = cWMARU THEN cMARU ELSE line[i]

\* the capture of the configured pattern k, or without one the simple patterns
AnswerOf(line, k) ==
    IF k # 0 THEN AnswerPatternCapture(k, line)
    ELSE SimpleAnswer(line, Least({n \in 1..Len(line) : line[n] \in MarkChars}))

\* detectAnswer(line): the answer a line carries, or NULL.  The configured
\* patterns return their capture as it stands; only the simple patterns
\* normalize the white circle
detectAnswer(line) ==
    AnswerOf(line, Least({k \in 1..4 : AnswerPatternCapture(k, line) # NULL}))

\* the introducers of CONFIG.PARSING.explanationPatterns, in order
ExplanationIntroducers ==
    << << "U89E3", "U8AAC" >>, << "U8AAC", "U660E" >>, << "U88DC", "U8DB3" >>,
       << "U7406", "U7531" >>, << "U6839", "U62E0" >>,
       << "U30DD", "U30A4", "U30F3", "U30C8" >>, << "U8981", "U70B9" >> >>

\* /^(?:introducer)[:U+FF1A]?\s*(.+)/i: the capture is the rest of the line after
\* the optional colon and the spaces; when nothing is left, the engine gives the
\* last space, or else the colon, back to the capture
ExplanationCapture(line, intro) ==
    LET e == Len(intro) + 1
        Rest(b) ==
            IF b <= Len(line) THEN From(line, b)
            ELSE IF b > e THEN From(line, b - 1)
            ELSE NULL
        SkipSpace(a) == a + RunLen(IsSpace, line, a)
    IN  IF ~StartsWithAt(line, 1, intro) THEN NULL
        ELSE Rest(SkipSpace(IF e <= Len(line) /\ line[e] \in {":", cFCOLON}
                            THEN e + 1 ELSE e))

ExplanationOf(line, k) ==
    IF k = 0 THEN NULL ELSE Trim(ExplanationCapture(line, ExplanationIntroducers[k]))

\* detectExplanation(line): the trimmed capture of the first pattern that matches
\* with a non-empty capture, or NULL
detectExplanation(line) ==
    ExplanationOf(line,
        Least({n \in 1..Len(ExplanationIntroducers) :
                   ExplanationCapture(line, ExplanationIntroducers[n]) # NULL}))

\* [\s\.\)U+FF1A U+3002]: the separators of the simple numbering patterns
IsSimpleSep(c) == IsSpace(c) \/ c \in {".", ")", cFCOLON, cKUTEN}

NoNumber == [ok |-> FALSE, number |-> 0, questionText |-> << >>]

\* the optional greedy tail (.+)? from position b, trimmed as the caller trims it
RestText(line, b) == Trim(From(line, b))

\* the simple patterns of detectQuestionNumber: [ok, number, questionText]
SimplePatternMatch(k, line) ==
    LET Found(numStart, numLen, restStart) ==
            [ok |-> TRUE, number |-> ParseInt(SubSeq(line, numStart, numStart + numLen - 1)),
             questionText |-> RestText(line, restStart)]
        DigitsAt(a) == RunLen(IsDigit, line, a)
        SkipSpace(a) == a + RunLen(IsSpace, line, a)
        SkipSep(a) == a + RunLen(IsSimpleSep, line, a)
        \* ^(\d+)[seps]+(.+)?, ^(\d{4,6})(.+)?, ^(\d{5})\s*(.+)?
        Plain(d1) ==
            CASE k = 1 ->
                   LET Sep(n) == IF d1 >= 1 /\ n >= 1 THEN Found(1, d1, 1 + d1 + n)
                                 ELSE NoNumber
                   IN  Sep(RunLen(IsSimpleSep, line, 1 + d1))
              [] k = 6 ->
                   LET Taken(d) == IF d1 >= 4 THEN Found(1, d, 1 + d) ELSE NoNumber
                   IN  Taken(IF d1 > 6 THEN 6 ELSE d1)
              [] k = 7 -> IF d1 >= 5 THEN Found(1, 5, SkipSpace(6)) ELSE NoNumber
        \* ^mon\s*(\d+)[seps]*(.+)?
        Mon(a, d) ==
            IF StartsWithAt(line, 1, << cMON >>) /\ d >= 1
            THEN Found(a, d, SkipSep(a + d)) ELSE NoNumber
        \* ^dai?\s*(\d+)\s*mon[seps]*(.+)?
        DaiMon(a, d, m) ==
            IF d >= 1 /\ StartsWithAt(line, m, << cMON >>)
            THEN Found(a, d, SkipSep(m + 1)) ELSE NoNumber
        DaiAt(a, d) == DaiMon(a, d, SkipSpace(a + d))
        \* ^\[(\d+)\][seps]*(.+)? and the same with lenticular brackets
        Bracket(open, close, d) ==
            IF /\ StartsWithAt(line, 1, << open >>) /\ d >= 1
               /\ StartsWithAt(line, 2 + d, << close >>)
            THEN Found(2, d, SkipSep(3 + d)) ELSE NoNumber
    IN  CASE k \in {1, 6, 7} -> Plain(DigitsAt(1))
          [] k = 2 -> LET At(a) == Mon(a, DigitsAt(a)) IN At(SkipSpace(2))
          [] k = 3 ->
               LET At(a) == DaiAt(a, DigitsAt(a))
               IN  At(SkipSpace(IF StartsWithAt(line, 1, << cDAINO >>) THEN 2 ELSE 1))
          [] k = 4 -> Bracket("[", "]", DigitsAt(2))
          [] k = 5 -> Bracket(cLB, cRB, DigitsAt(2))

NumberInRange(n) == n > 0 /\ n <= questionNumberMax

\* a configured numbering pattern on one line: new RegExp(source, 'i'), no g, s or m
LinePatternMatch(p, line) ==
    LET Of(r) ==
            IF r.ok
            THEN [ok |-> TRUE, number |-> ParseInt(r.num), questionText |-> Trim(r.body)]
            ELSE NoNumber
    IN  Of(MatchAt(p, line, 1, FALSE, FALSE, TRUE))

\* a match with a number in (0, questionNumberMax]
NumberHit(r) == r.ok /\ NumberInRange(r.number)

\* the simple pattern k (0: none matched) as the result of detectQuestionNumber
SimpleNumberOf(line, k) ==
    IF k # 0 THEN SimplePatternMatch(k, line) @@ [pattern |-> 11]
    ELSE NoNumber @@ [pattern |-> 0]

\* the configured pattern p or, when none matched (0), the simple patterns
NumberOf(line, p) ==
    IF p # 0 THEN LinePatternMatch(p, line) @@ [pattern |-> p]
    ELSE SimpleNumberOf(line, Least({k \in 1..7 : NumberHit(SimplePatternMatch(k, line))}))

\* detectQuestionNumber(line): the first configured pattern, then the first simple
\* pattern, that matches with a number in (0, questionNumberMax]
detectQuestionNumber(line) ==
    NumberOf(line, Least({p \in 1..NumPatterns : NumberHit(LinePatternMatch(p, line))}))

\* isIgnorableLine(line)
isIgnorableLine(line) ==
    LET Slash(d) ==
            d >= 1 /\ StartsWithAt(line, 1 + d, << "/" >>) /\ RunLen(IsDigit, line, 2 + d) >= 1
        Chapter(d) == d >= 1 /\ StartsWithAt(line, 2 + d, << "U7AE0" >>)
    IN  \/ Len(line) < 3
        \/ (Len(line) >= 1 /\ RunLen(IsDigit, line, 1) = Len(line))
        \/ (Len(line) >= 1 /\ \A i \in 1..Len(line) :
                line[i] \in {"U30FB", "U25CF", "U25CB", "U25B2", "U25B3", "U25A1", "U25A0",
                             "U25C6", "-", "="})
        \/ StartsWithAt(line, 1, << "U30DA", "U30FC", "U30B8" >>)
        \/ StartsWithAt(line, 1, << "P", "a", "g", "e" >>)
        \/ Slash(RunLen(IsDigit, line, 1))
        \/ StartsWithAt(line, 1, << cDAINO >>) /\ Chapter(RunLen(IsDigit, line, 2))

\* appendToQuestion(currentQuestion, line)
appendToQuestion(currentQuestion, line) ==
    IF isIgnorableLine(line) THEN currentQuestion
    ELSE IF /\ currentQuestion # << >>
            /\ ~EndsWith(currentQuestion, << cKUTEN >>)
            /\ ~EndsWith(currentQuestion, << cSP >>)
    THEN currentQuestion \o << cSP >> \o line
    ELSE currentQuestion \o line


(***************************************************************************)
(* TextCleaner.  text-cleaner.js is not among the sources at hand; these    *)
(* operators follow the written design of the text normalizer and of the   *)
(* finalizer's cleaning step, with the tables of CONFIG.CLEANING.           *)
(***************************************************************************)
\* s with every occurrence of from replaced by to, left to right
RECURSIVE ReplaceAllFrom(_, _, _, _)
ReplaceAllFrom(s, i, from, to) ==
    LET At(h) ==
            IF h = 0 THEN From(s, i)
            ELSE SubSeq(s, i, h - 1) \o to \o ReplaceAllFrom(s, h + Len(from), from, to)
    IN  At(FirstPosition(LAMBDA n : StartsWithAt(s, n, from), i, Len(s)))

ReplaceAll(s, from, to) == ReplaceAllFrom(s, 1, from, to)

\* s with every run of at least minRun characters satisfying P replaced by to
RECURSIVE CollapseRunsFrom(_, _, _, _, _)
CollapseRunsFrom(P(_), s, i, minRun, to) ==
    LET LongRun(n) == /\ n + minRun - 1 <= Len(s)
                      /\ \A k \in 0..(minRun - 1) : P(s[n + k])
        At(h) ==
            IF h = 0 THEN From(s, i)
            ELSE SubSeq(s, i, h - 1) \o to
                 \o CollapseRunsFrom(P, s, h + RunLen(P, s, h), minRun, to)
    IN  At(FirstPosition(LongRun, i, Len(s)))

\* CONFIG.CLEANING.encodingFixes, the entries in the order of the table: the
\* question marks, three middle dots, two ideographic spaces, NUL, U+FFFD
encodingFixes(s) ==
    FilterSeq(LAMBDA c : c \notin {"U0000", "UFFFD"},
        ReplaceAll(ReplaceAll(FilterSeq(LAMBDA c : c # "?", s),
                              << "U30FB", "U30FB", "U30FB" >>, << "U2026" >>),
                   << cISP, cISP >>, << cISP >>))

\* CONFIG.CLEANING.normalizations: wave dash, middle dot, circle
normalizations(s) ==
    MapSeq(LAMBDA c : CASE c = "UFF5E" -> "U301C"
                        [] c = "U00B7" -> "U30FB"
                        [] c = cWMARU -> cMARU
                        [] OTHER -> c, s)

FullWidthDigits == << "UFF10", "UFF11", "UFF12", "UFF13", "UFF14",
                      "UFF15", "UFF16", "UFF17", "UFF18", "UFF19" >>

AsciiDigits == << "0", "1", "2", "3", "4", "5", "6", "7", "8", "9" >>

\* full-width digits and parentheses to their ASCII forms
ToHalfWidth(c) ==
    IF \E k \in 1..10 : FullWidthDigits[k] = c
    THEN AsciiDigits[CHOOSE k \in 1..10 : FullWidthDigits[k] = c]
    ELSE IF c = "UFF08" THEN "(" ELSE IF c = "UFF09" THEN ")" ELSE c

\* CONFIG.CLEANING.removePatterns: 3+ newlines to two, 2+ spaces or tabs to one
\* space; the control characters of the first pattern are dropped with the
\* encoding fixes.  Runs of ideographic spaces collapse to one.
removePatterns(s) ==
    CollapseRunsFrom(LAMBDA c : c = cISP,
        CollapseRunsFrom(LAMBDA c : c \in {cSP, cTAB},
            CollapseRunsFrom(LAMBDA c : c = cNL, s, 1, 3, << cNL, cNL >>),
            1, 2, << cSP >>),
        1, 2, << cISP >>)

\* TextCleaner.cleanJapaneseText(text); NULL or empty gives the empty string.
\* Every character of the model is its own NFC form.
cleanJapaneseText(text) ==
    IF text = NULL THEN << >>
    ELSE MapSeq(ToHalfWidth, removePatterns(normalizations(encodingFixes(text))))

BulletGlyphs == {"U30FB", "U25CF", "U25CB", "U25B2", "U25B3", "U25A1", "U25A0", "U25C6"}

IsPrefixSep(c) == IsSpace(c) \/ c \in {".", cFDOT, cKUTEN, ")", ":", cFCOLON}

\* the length of a leading question-number prefix of s: mon N, dai N mon, or N
\* followed by a separator; 0 when s does not begin with one
NumberPrefixLen(s) ==
    LET DigitsAt(a) == RunLen(IsDigit, s, a)
        SkipSpace(a) == a + RunLen(IsSpace, s, a)
        Plain(d1) ==
            LET Sep(n) == IF d1 >= 1 /\ n >= 1 THEN d1 + n ELSE 0
            IN  Sep(RunLen(IsPrefixSep, s, 1 + d1))
        DaiMon(d, m) ==
            IF StartsWithAt(s, 1, << cDAINO >>) /\ d >= 1 /\ StartsWithAt(s, m, << cMON >>)
            THEN m + RunLen(IsPrefixSep, s, m + 1)
            ELSE Plain(DigitsAt(1))
        Prefixed(a, d) ==
            IF StartsWithAt(s, 1, << cMON >>) /\ d >= 1
            THEN a + d - 1 + RunLen(IsPrefixSep, s, a + d)
            ELSE DaiMon(d, SkipSpace(a + d))
        At(a) == Prefixed(a, DigitsAt(a))
    IN  At(SkipSpace(2))

\* strip a leading question-number prefix, then leading bullet glyphs
StripLeading(s) ==
    LET Bullets(a) ==
            LET Done(b) == IF Len(b) < Len(a) THEN TrimLeft(b) ELSE b
            IN  Done(From(a, 1 + RunLen(LAMBDA c : c \in BulletGlyphs, a, 1)))
    IN  Bullets(From(s, 1 + NumberPrefixLen(s)))

\* the continuation heuristic: a line under 20 characters joins the line before it
RECURSIVE MergeContinuations(_, _)
MergeContinuations(acc, rest) ==
    IF rest = << >> THEN acc
    ELSE IF acc # << >> /\ Len(Head(rest)) < 20
    THEN MergeContinuations(SubSeq(acc, 1, Len(acc) - 1) \o << acc[Len(acc)] \o Head(rest) >>,
                            Tail(rest))
    ELSE MergeContinuations(Append(acc, Head(rest)), Tail(rest))

\* TextCleaner.cleanQuestionText(text)
cleanQuestionText(text) ==
    IF text = NULL THEN << >>
    ELSE Join(MergeContinuations(<< >>, SplitNL(StripLeading(text))), << cSP >>)

\* TextCleaner.cleanExplanationText(text)
cleanExplanationText(text) ==
    IF text = NULL THEN << >>
    ELSE Join(MergeContinuations(<< >>, SplitNL(StripLeading(text))), << cSP >>)

(***************************************************************************)
(* preprocessText and mergeShortLines                                      *)
(***************************************************************************)
\* /^(\d{4,6})|[U+00D7 U+3007 U+25CB]$/: the line starts with 4 to 6 digits or
\* ends with an answer mark
KeepsOwnLine(line) ==
    \/ RunLen(IsDigit, line, 1) >= 4
    \/ (Len(line) >= 1 /\ line[Len(line)] \in MarkChars)

RECURSIVE MergeLoop(_, _, _, _)
MergeLoop(lines, minLen, buffer, merged) ==
    IF lines = << >>
    THEN (IF buffer # << >> THEN Append(merged, buffer) ELSE merged)
    ELSE LET line == Head(lines)
         IN  IF Len(line) < minLen /\ ~KeepsOwnLine(line)
             THEN MergeLoop(Tail(lines), minLen,
                            buffer \o (IF buffer # << >> THEN << cSP >> ELSE << >>) \o Trim(line),
                            merged)
             ELSE IF buffer # << >>
             THEN MergeLoop(Tail(lines), minLen, << >>, Append(merged, buffer \o << cSP >> \o line))
             ELSE MergeLoop(Tail(lines), minLen, << >>, Append(merged, line))

\* mergeShortLines(lines, minLen)
mergeShortLines(lines, minLen) == MergeLoop(lines, minLen, << >>, << >>)

\* the shortest line preprocessText leaves alone
mergeMinLen == 25

\* preprocessText(text): split at newline runs, trim, drop empty lines, clean each
\* line, merge the short ones
preprocessText(text) ==
    mergeShortLines(
        MapSeq(cleanJapaneseText,
               FilterSeq(LAMBDA l : Len(l) > 0, MapSeq(Trim, SplitLines(text)))),
        mergeMinLen)


(***************************************************************************)
(* CONFIG.SECTIONS.  A section is named by its key; SectionOther stands for    *)
(* the name given when no section is detected.                              *)
(***************************************************************************)
SectionKeys == << "KENRI", "TAKKEN", "HOUREI", "ZEI" >>

SectionOther == "OTHER"

\* CONFIG.SECTIONS[key].keywords
SectionKeywords(key) ==
    CASE key = "KENRI" ->
           << <<"U6C11", "U6CD5">>,
              <<"U4E0D", "U52D5", "U7523", "U767B", "U8A18", "U6CD5">>,
              <<"U501F", "U5730", "U501F", "U5BB6", "U6CD5">>,
              <<"U533A", "U5206", "U6240", "U6709", "U6CD5">>,
              <<"U5951", "U7D04">>,
              <<"U7269", "U6A29">>,
              <<"U50B5", "U6A29">> >>
      [] key = "TAKKEN" ->
           << <<"U5B85", "U5EFA", "U696D">>,
              <<"U514D", "U8A31">>,
              <<"U5B85", "U5730", "U5EFA", "U7269", "U53D6", "U5F15", "U58EB">>,
              <<"U91CD", "U8981", "U4E8B", "U9805", "U8AAC", "U660E">>,
              <<"3", "7", "U6761", "U66F8", "U9762">> >>
      [] key = "HOUREI" ->
           << <<"U90FD", "U5E02", "U8A08", "U753B", "U6CD5">>,
              <<"U5EFA", "U7BC9", "U57FA", "U6E96", "U6CD5">>,
              <<"U56FD", "U571F", "U5229", "U7528", "U8A08", "U753B", "U6CD5">>,
              <<"U8FB2", "U5730", "U6CD5">>,
              <<"U571F", "U5730", "U533A", "U753B", "U6574", "U7406", "U6CD5">> >>
      [] key = "ZEI" ->
           << <<"U4E0D", "U52D5", "U7523", "U53D6", "U5F97", "U7A0E">>,
              <<"U56FA", "U5B9A", "U8CC7", "U7523", "U7A0E">>,
              <<"U6240", "U5F97", "U7A0E">>,
              <<"U5370", "U7D19", "U7A0E">>,
              <<"U5730", "U4FA1", "U516C", "U793A">> >>

\* CONFIG.SECTIONS[key].questionRange
questionRange(key) ==
    CASE key = "KENRI" -> << 1, 100 >>
      [] key = "TAKKEN" -> << 101, 150 >>
      [] key = "HOUREI" -> << 151, 200 >>
      [] key = "ZEI" -> << 201, 250 >>

\* CONFIG.CLEANING.positiveKeywords
positiveKeywords ==
    << <<"U6B63", "U3057", "U3044">>,
       <<"U9069", "U5207">>,
       <<"U53EF", "U80FD">>,
       <<"U3067", "U304D", "U308B">>,
       <<"U5FC5", "U8981">>,
       <<"U7FA9", "U52D9">>,
       <<"U6709", "U52B9">> >>

\* CONFIG.CLEANING.negativeKeywords
negativeKeywords ==
    << <<"U8AA4", "U3063", "U3066", "U3044", "U308B">>,
       <<"U4E0D", "U9069", "U5207">>,
       <<"U4E0D", "U53EF", "U80FD">>,
       <<"U3067", "U304D", "U306A", "U3044">>,
       <<"U4E0D", "U8981">>,
       <<"U7981", "U6B62">>,
       <<"U7121", "U52B9">> >>

(***************************************************************************)
(* generateExplanation: the eight templates and the four topical sentences *)
(***************************************************************************)

\* templates[KENRI].correct
Template_KENRI_correct ==
    << "U6C11", "U6CD5", "U304A", "U3088", "U3073", "U95A2", "U9023", "U6CD5",
       "U306E", "U898F", "U5B9A", "U306B", "U3088", "U308A", "U3001", "U3053",
       "U306E", "U8A18", "U8FF0", "U306F", "U6B63", "U3057", "U3044", "U3067",
       "U3059", "U3002", "U6A29", "U5229", "U95A2", "U4FC2", "U306E", "U57FA",
       "U672C", "U7684", "U306A", "U7406", "U89E3", "U3092", "U6DF1", "U3081",
       "U308B", "U3053", "U3068", "U304C", "U91CD", "U8981", "U3067", "U3059",
       "U3002" >>

\* templates[KENRI].incorrect
Template_KENRI_incorrect ==
    << "U6C11", "U6CD5", "U304A", "U3088", "U3073", "U95A2", "U9023", "U6CD5",
       "U306E", "U898F", "U5B9A", "U306B", "U3088", "U308A", "U3001", "U3053",
       "U306E", "U8A18", "U8FF0", "U306F", "U8AA4", "U308A", "U3067", "U3059",
       "U3002", "U6B63", "U3057", "U3044", "U6CD5", "U5F8B", "U95A2", "U4FC2",
       "U3092", "U78BA", "U8A8D", "U3057", "U307E", "U3057", "U3087", "U3046",
       "U3002" >>

\* templates[TAKKEN].correct
Template_TAKKEN_correct ==
    << "U5B85", "U5EFA", "U696D", "U6CD5", "U306E", "U898F", "U5B9A", "U306B",
       "U3088", "U308A", "U3001", "U3053", "U306E", "U8A18", "U8FF0", "U306F",
       "U6B63", "U3057", "U3044", "U3067", "U3059", "U3002", "U5B85", "U5EFA",
       "U696D", "U8005", "U306E", "U7FA9", "U52D9", "U3084", "U5236", "U9650",
       "U306B", "U3064", "U3044", "U3066", "U6B63", "U78BA", "U306B", "U7406",
       "U89E3", "U3057", "U307E", "U3057", "U3087", "U3046", "U3002" >>

\* templates[TAKKEN].incorrect
Template_TAKKEN_incorrect ==
    << "U5B85", "U5EFA", "U696D", "U6CD5", "U306E", "U898F", "U5B9A", "U306B",
       "U3088", "U308A", "U3001", "U3053", "U306E", "U8A18", "U8FF0", "U306F",
       "U8AA4", "U308A", "U3067", "U3059", "U3002", "U5B85", "U5EFA", "U696D",
       "U6CD5", "U306E", "U6B63", "U3057", "U3044", "U5185", "U5BB9", "U3092",
       "U78BA", "U8A8D", "U3059", "U308B", "U3053", "U3068", "U304C", "U91CD",
       "U8981", "U3067", "U3059", "U3002" >>

\* templates[HOUREI].correct
Template_HOUREI_correct ==
    << "U6CD5", "U4EE4", "U4E0A", "U306E", "U5236", "U9650", "U306B", "U95A2",
       "U3059", "U308B", "U898F", "U5B9A", "U306B", "U3088", "U308A", "U3001",
       "U3053", "U306E", "U8A18", "U8FF0", "U306F", "U6B63", "U3057", "U3044",
       "U3067", "U3059", "U3002", "U5404", "U7A2E", "U6CD5", "U4EE4", "U306E",
       "U5236", "U9650", "U5185", "U5BB9", "U3092", "U6B63", "U78BA", "U306B",
       "U628A", "U63E1", "U3057", "U307E", "U3057", "U3087", "U3046", "U3002" >>

\* templates[HOUREI].incorrect
Template_HOUREI_incorrect ==
    << "U6CD5", "U4EE4", "U4E0A", "U306E", "U5236", "U9650", "U306B", "U95A2",
       "U3059", "U308B", "U898F", "U5B9A", "U306B", "U3088", "U308A", "U3001",
       "U3053", "U306E", "U8A18", "U8FF0", "U306F", "U8AA4", "U308A", "U3067",
       "U3059", "U3002", "U95A2", "U9023", "U3059", "U308B", "U6CD5", "U4EE4",
       "U306E", "U6B63", "U3057", "U3044", "U5236", "U9650", "U5185", "U5BB9",
       "U3092", "U78BA", "U8A8D", "U3057", "U307E", "U3057", "U3087", "U3046",
       "U3002" >>

\* templates[ZEI].correct
Template_ZEI_correct ==
    << "U7A0E", "U6CD5", "U304A", "U3088", "U3073", "U305D", "U306E", "U4ED6",
       "U306E", "U95A2", "U9023", "U6CD5", "U4EE4", "U306B", "U3088", "U308A",
       "U3001", "U3053", "U306E", "U8A18", "U8FF0", "U306F", "U6B63", "U3057",
       "U3044", "U3067", "U3059", "U3002", "U4E0D", "U52D5", "U7523", "U306B",
       "U95A2", "U3059", "U308B", "U7A0E", "U5236", "U306E", "U7406", "U89E3",
       "U3092", "U6DF1", "U3081", "U307E", "U3057", "U3087", "U3046", "U3002" >>

\* templates[ZEI].incorrect
Template_ZEI_incorrect ==
    << "U7A0E", "U6CD5", "U304A", "U3088", "U3073", "U305D", "U306E", "U4ED6",
       "U306E", "U95A2", "U9023", "U6CD5", "U4EE4", "U306B", "U3088", "U308A",
       "U3001", "U3053", "U306E", "U8A18", "U8FF0", "U306F", "U8AA4", "U308A",
       "U3067", "U3059", "U3002", "U6B63", "U3057", "U3044", "U7A0E", "U5236",
       "U3084", "U8A55", "U4FA1", "U65B9", "U6CD5", "U3092", "U78BA", "U8A8D",
       "U3057", "U307E", "U3057", "U3087", "U3046", "U3002" >>

kwKeiyaku == <<"U5951", "U7D04">>

\* the sentence appended when the body includes kwKeiyaku
Topical_Keiyaku ==
    << "U0020", "U5951", "U7D04", "U306E", "U6210", "U7ACB", "U8981", "U4EF6",
       "U3084", "U52B9", "U529B", "U306B", "U3064", "U3044", "U3066", "U8A73",
       "U3057", "U304F", "U5B66", "U7FD2", "U3059", "U308B", "U3053", "U3068",
       "U3092", "U304A", "U52E7", "U3081", "U3057", "U307E", "U3059", "U3002" >>

kwTouki == <<"U767B", "U8A18">>

\* the sentence appended when the body includes kwTouki
Topical_Touki ==
    << "U0020", "U4E0D", "U52D5", "U7523", "U767B", "U8A18", "U6CD5", "U306E",
       "U4ED5", "U7D44", "U307F", "U3068", "U624B", "U7D9A", "U304D", "U306B",
       "U3064", "U3044", "U3066", "U7406", "U89E3", "U3092", "U6DF1", "U3081",
       "U307E", "U3057", "U3087", "U3046", "U3002" >>

kwMenkyo == <<"U514D", "U8A31">>

\* the sentence appended when the body includes kwMenkyo
Topical_Menkyo ==
    << "U0020", "U514D", "U8A31", "U5236", "U5EA6", "U306E", "U8A73", "U7D30",
       "U3068", "U66F4", "U65B0", "U624B", "U7D9A", "U304D", "U306B", "U3064",
       "U3044", "U3066", "U78BA", "U8A8D", "U3057", "U3066", "U304A", "U304D",
       "U307E", "U3057", "U3087", "U3046", "U3002" >>

kwJuuyou == <<"U91CD", "U8981", "U4E8B", "U9805">>

\* the sentence appended when the body includes kwJuuyou
Topical_Juuyou ==
    << "U0020", "U91CD", "U8981", "U4E8B", "U9805", "U8AAC", "U660E", "U66F8",
       "U306E", "U8A18", "U8F09", "U4E8B", "U9805", "U3068", "U8AAC", "U660E",
       "U7FA9", "U52D9", "U306B", "U3064", "U3044", "U3066", "U5FA9", "U7FD2",
       "U3057", "U307E", "U3057", "U3087", "U3046", "U3002" >>

kwKaMaru == <<"U304B", "U3002">>

kwDeshouka == <<"U3067", "U3057", "U3087", "U3046", "U304B">>

kwDesuka == <<"U3067", "U3059", "U304B">>

kwNai == <<"U306A", "U3044">>

kwDenai == <<"U3067", "U306A", "U3044">>

kwDehanai == <<"U3067", "U306F", "U306A", "U3044">>

(***************************************************************************)
(* Section detection                                                       *)
(***************************************************************************)
\* some element of the sequence satisfies P
SomeOf(P(_), seq) == \E i \in 1..Len(seq) : P(seq[i])

\* /(\d+)[-_ U+FF5E U+301C](\d+)/ on the file name: << start, end >> of the first
\* match, or << >>
FileNameRange(fileName) ==
    LET IsRangeSep(c) == c \in {"-", "_", "UFF5E", "U301C"}
        DigitsAt(a) == RunLen(IsDigit, fileName, a)
        Shape(i, d) ==
            /\ d >= 1
            /\ i + d <= Len(fileName) /\ IsRangeSep(fileName[i + d])
            /\ DigitsAt(i + d + 1) >= 1
        Hit(i) == Shape(i, DigitsAt(i))
        Numbers(i, d, e) ==
            << ParseInt(SubSeq(fileName, i, i + d - 1)),
               ParseInt(SubSeq(fileName, i + d + 1, i + d + e)) >>
        Second(i, d) == Numbers(i, d, DigitsAt(i + d + 1))
        At(i) == IF i = 0 THEN << >> ELSE Second(i, DigitsAt(i))
    IN  At(FirstPosition(Hit, 1, Len(fileName)))

\* detectSectionFromFileName(fileName)
detectSectionFromFileName(fileName) ==
    LET lowerFileName == ToLowerCase(fileName)
        ByKeyword(n) == SomeOf(LAMBDA kw : Includes(lowerFileName, ToLowerCase(kw)),
                               SectionKeywords(SectionKeys[n]))
        InRange(range) ==
            LET ByRange(n) == /\ range[1] >= questionRange(SectionKeys[n])[1]
                              /\ range[2] <= questionRange(SectionKeys[n])[2]
            IN  IF range = << >> THEN 0 ELSE FirstIndex(ByRange, 1, Len(SectionKeys))
        Ranged(r) == IF r # 0 THEN SectionKeys[r] ELSE SectionOther
        Keyword(k) ==
            IF k # 0 THEN SectionKeys[k] ELSE Ranged(InRange(FileNameRange(fileName)))
    IN  Keyword(FirstIndex(ByKeyword, 1, Len(SectionKeys)))

RECURSIVE SumSeq(_)
SumSeq(seq) == IF seq = << >> THEN 0 ELSE Head(seq) + SumSeq(Tail(seq))

\* the occurrences in text of the keywords of a section (new RegExp(keyword, 'gi'))
sectionCount(text, key) ==
    SumSeq(MapSeq(LAMBDA kw : CountMatches(ToLowerCase(text), ToLowerCase(kw)),
                  SectionKeywords(key)))

\* keys.reduce((a, b) => count[a] > count[b] ? a : b): a later section wins a tie
RECURSIVE MaxSectionFrom(_, _, _)
MaxSectionFrom(text, a, n) ==
    IF n > Len(SectionKeys) THEN a
    ELSE IF sectionCount(text, a) > sectionCount(text, SectionKeys[n])
    THEN MaxSectionFrom(text, a, n + 1)
    ELSE MaxSectionFrom(text, SectionKeys[n], n + 1)

\* detectSectionFromContent(text)
detectSectionFromContent(text) ==
    LET Counted(maxSection) ==
            IF sectionCount(text, maxSection) > 0 THEN maxSection ELSE SectionOther
    IN  Counted(MaxSectionFrom(text, SectionKeys[1], 2))

\* detectSectionFromQuestionNumbers(text): the loop variable is a pattern entry of
\* the configuration, which has no source property, so every regular expression
\* built there is the empty one; its matches capture nothing and no number is
\* collected
detectSectionFromQuestionNumbers(text) ==
    LET numbers == << >>
        InRange(n) == /\ SumSeq(numbers) >= questionRange(SectionKeys[n])[1] * Len(numbers)
                      /\ SumSeq(numbers) <= questionRange(SectionKeys[n])[2] * Len(numbers)
        k == FirstIndex(InRange, 1, Len(SectionKeys))
    IN  IF Len(numbers) = 0 \/ k = 0 THEN SectionOther ELSE SectionKeys[k]

\* detectSection(text, fileName)
detectSection(text, fileName) ==
    LET Content(c) ==
            IF c # SectionOther THEN c ELSE detectSectionFromQuestionNumbers(text)
        File(f) == IF f # SectionOther THEN f ELSE Content(detectSectionFromContent(text))
    IN  File(detectSectionFromFileName(fileName))


(***************************************************************************)
(* Choices                                                                  *)
(***************************************************************************)
\* the markers of CONFIG.PARSING.choicePatterns[k] for the two list patterns whose
\* first capture is the choice text (k = 2: 1-9, k = 3: katakana)
ChoiceMarkers(k) ==
    IF k = 2 THEN {"1", "2", "3", "4", "5", "6", "7", "8", "9"}
    ELSE {"U30A2", "U30A4", "U30A6", "U30A8", "U30AA",
          "U30AB", "U30AD", "U30AF", "U30B1", "U30B3"}

\* /^[marker]\.\s*(.+?)(?=^[marker]\.|$)/gm at position i.  The capture cannot
\* hold a line feed, so the look-ahead is met at the end of the capture's line;
\* \s* gives back characters until the capture can start.
ChoiceMatchAt(k, s, i) ==
    LET None == [ok |-> FALSE, number |-> NULL, text |-> << >>, end |-> i]
        Matched(b, e) ==
            [ok |-> TRUE, number |-> s[i], text |-> SubSeq(s, b, e - 1), end |-> e]
        Capture(b) == Matched(b, b + RunLen(LAMBDA c : c # cNL, s, b))
        Spaces(w) ==
            LET CanStart(n) == i + 2 + (w - n) <= Len(s) /\ s[i + 2 + (w - n)] # cNL
                Back(n) == Capture(i + 2 + (w - n))
            IN  IF \E n \in 0..w : CanStart(n) THEN Back(FirstIndex(CanStart, 0, w))
                ELSE None
    IN  IF /\ i + 1 <= Len(s)
           /\ AtLineStart(s, i, TRUE)
           /\ s[i] \in ChoiceMarkers(k)
           /\ s[i + 1] = "."
        THEN Spaces(RunLen(IsSpace, s, i + 2))
        ELSE None

\* the position of the first list entry at or after position i, or 0
NextChoice(k, s, i) == Least({n \in i..Len(s) : ChoiceMatchAt(k, s, n).ok})

\* [...text.matchAll(regex)] for a list pattern: the entry at position h (0:
\* none) and those after it
RECURSIVE ChoiceMatchesFrom(_, _, _)
ChoiceAndRest(k, s, m) == << m >> \o ChoiceMatchesFrom(k, s, NextChoice(k, s, m.end))

ChoiceMatchesFrom(k, s, h) ==
    IF h = 0 THEN << >> ELSE ChoiceAndRest(k, s, ChoiceMatchAt(k, s, h))

\* the choices one pattern contributes: none unless it matches at least twice;
\* a match counts when its first capture, trimmed, is longer than 3.  The circled
\* pattern (1) has no capture and the parenthesized one (4) captures one digit
\* first, so neither contributes.
PatternChoices(k, text) ==
    LET Kept(matches) ==
            IF Len(matches) >= 2
            THEN MapSeq(LAMBDA m : [number |-> m.number, text |-> Trim(m.text)],
                        FilterSeq(LAMBDA m : Len(Trim(m.text)) > 3, matches))
            ELSE << >>
    IN  Kept(IF k \in {2, 3} THEN ChoiceMatchesFrom(k, text, NextChoice(k, text, 1))
             ELSE << >>)

ChoicesOf(text, k) == IF k = 0 THEN << >> ELSE PatternChoices(k, text)

\* extractChoices(text): the choices of the first pattern that contributes any
extractChoices(text) ==
    ChoicesOf(text, Least({n \in 1..4 : PatternChoices(n, text) # << >>}))

(***************************************************************************)
(* Answer guessing and explanation generation                              *)
(***************************************************************************)
keywordCount(text, keywords) ==
    SumSeq(MapSeq(LAMBDA kw : CountMatches(text, kw), keywords))

\* the keywords of a list that occur in the line: lowerLine.includes(keyword)
keywordPresence(line, keywords) ==
    Cardinality({k \in 1..Len(keywords) : Includes(line, keywords[k])})

\* the object detectAnswerFromKeywords returns for an answer
KeywordInference(answer, line) ==
    << [answer |-> answer, fullMatch |-> line, pattern |-> "keyword_inference",
        confidence |-> 70] >>

\* the decision of detectAnswerFromKeywords, as a sequence of zero or one result
InferredAnswer(line, positiveScore, negativeScore) ==
    IF positiveScore > negativeScore /\ positiveScore >= 2
    THEN KeywordInference(cMARU, line)
    ELSE IF negativeScore > positiveScore /\ negativeScore >= 2
    THEN KeywordInference(cBATSU, line)
    ELSE << >>

\* detectAnswerFromKeywords(line)
detectAnswerFromKeywords(line) ==
    InferredAnswer(line,
                   keywordPresence(ToLowerCase(line), positiveKeywords),
                   keywordPresence(ToLowerCase(line), negativeKeywords))

\* guessAnswerFromQuestion(questionText)
guessAnswerFromQuestion(questionText) ==
    LET Decide(positiveScore, negativeScore) ==
            IF questionText = << >> THEN cBATSU
            ELSE IF positiveScore > negativeScore THEN cMARU
            ELSE cBATSU
        Scores(text) ==
            Decide(keywordCount(text, positiveKeywords)
                   + (IF \/ Includes(text, kwKaMaru)
                         \/ Includes(text, kwDeshouka)
                         \/ Includes(text, kwDesuka)
                      THEN 1 ELSE 0),
                   keywordCount(text, negativeKeywords)
                   + (IF \/ Includes(text, kwNai)
                         \/ Includes(text, kwDenai)
                         \/ Includes(text, kwDehanai)
                      THEN 1 ELSE 0))
    IN  Scores(ToLowerCase(questionText))

\* templates[sectionName] || templates[ZEI], correct or incorrect
Template(section, isCorrect) ==
    CASE section = "KENRI" ->
           (IF isCorrect THEN Template_KENRI_correct ELSE Template_KENRI_incorrect)
      [] section = "TAKKEN" ->
           (IF isCorrect THEN Template_TAKKEN_correct ELSE Template_TAKKEN_incorrect)
      [] section = "HOUREI" ->
           (IF isCorrect THEN Template_HOUREI_correct ELSE Template_HOUREI_incorrect)
      [] OTHER ->
           (IF isCorrect THEN Template_ZEI_correct ELSE Template_ZEI_incorrect)

\* generateExplanation(questionText, answer, section)
generateExplanation(questionText, answer, section) ==
    Template(section, answer = cMARU)
    \o (IF Includes(questionText, kwKeiyaku) THEN Topical_Keiyaku
        ELSE IF Includes(questionText, kwTouki) THEN Topical_Touki
        ELSE IF Includes(questionText, kwMenkyo) THEN Topical_Menkyo
        ELSE IF Includes(questionText, kwJuuyou) THEN Topical_Juuyou
        ELSE << >>)

(***************************************************************************)
(* Quality scoring.  Scores are in thousandths (Q_UNIT to the unit), a      *)
(* confidence is in units of 1/CONF_UNIT of a point.                        *)
(***************************************************************************)
Q_UNIT == 1000

CONF_UNIT == 4000000

\* floor(a * n / d) without leaving the machine integers
MulDiv(a, n, d) == (a \div d) * n + ((a % d) * n) \div d

Min(a, b) == IF a < b THEN a ELSE b

Max(a, b) == IF a > b THEN a ELSE b

\* a clamp that returns its value unchanged
Unclamped(value, min, max) == value

\* Utils.clamp(value, min, max)
clamp(value, min, max) == Min(Max(value, min), max)

\* evaluateQuestionLength(questionText)
evaluateQuestionLength(questionText) ==
    LET length == Len(questionText)
    IN  IF length = 0 THEN 0
        ELSE IF length < 10 THEN 100
        ELSE IF length < 20 THEN 300
        ELSE IF length < 50 THEN 700
        ELSE IF length < 200 THEN 1000
        ELSE IF length < 500 THEN 900
        ELSE 600

\* evaluateChoiceCount(choices)
evaluateChoiceCount(choices) ==
    LET count == Len(choices)
    IN  IF count = 0 THEN 500
        ELSE IF count >= 2 /\ count <= 5 THEN 1000
        ELSE IF count = 1 THEN 300
        ELSE 200

\* evaluateChoiceQuality(choices): no choice carries a symbol
evaluateChoiceQuality(choices) ==
    LET choiceScore(c) == (IF Len(c.text) > 5 THEN 500 ELSE 0)
                          + (IF Len(c.text) > 15 THEN 300 ELSE 0)
    IN  IF Len(choices) = 0 THEN 500
        ELSE SumSeq(MapSeq(LAMBDA c : Min(choiceScore(c), 1000), choices)) \div Len(choices)

\* evaluateAnswerPresence(answer)
evaluateAnswerPresence(answer) ==
    IF answer = NULL THEN 0
    ELSE IF answer \in {cMARU, cBATSU} THEN 1000
    ELSE IF answer \in ChoiceTokens THEN 1000
    ELSE 500

\* evaluateExplanationQuality(explanation)
evaluateExplanationQuality(explanation) ==
    LET length == Len(explanation)
    IN  IF length = 0 THEN 0
        ELSE IF length < 10 THEN 200
        ELSE IF length < 30 THEN 500
        ELSE IF length < 100 THEN 800
        ELSE IF length < 300 THEN 1000
        ELSE 900

\* evaluateFormatConsistency(question): patternUsed is set nowhere, and the
\* choice numbers are one-character strings, for which n !== m + 1 always holds
evaluateFormatConsistency(question) ==
    Min((IF question.questionNumber >= 1 /\ question.questionNumber <= 100 THEN 300 ELSE 0)
        + (IF Len(question.choices) > 1 THEN 200 ELSE 400),
        1000)

\* calculateMultiDimensionalQuality(question).totalScore, with
\* CONFIG.PARSING.qualityWeights in hundredths
calculateMultiDimensionalQuality(question) ==
    Min((25 * evaluateQuestionLength(question.question)
         + 20 * evaluateChoiceCount(question.choices)
         + 15 * evaluateChoiceQuality(question.choices)
         + 20 * evaluateAnswerPresence(question.answer)
         + 10 * evaluateExplanationQuality(question.explanation)
         + 10 * evaluateFormatConsistency(question)) \div 100,
        Q_UNIT)

\* the adjustment without its clamp
adjustWithoutClamp(baseConfidence, totalScore) ==
    MulDiv(baseConfidence, Q_UNIT + totalScore, 2 * Q_UNIT)

\* adjustConfidenceByQuality(baseConfidence, qualityScore)
adjustConfidenceByQuality(baseConfidence, totalScore) ==
    clamp(MulDiv(baseConfidence, Q_UNIT + totalScore, 2 * Q_UNIT),
          MulDiv(baseConfidence, 7, 10),
          MulDiv(baseConfidence, 13, 10))


(***************************************************************************)
(* Questions.  tier and finalized are history fields: the tier that made    *)
(* the question and the number of times finalizeQuestion has been applied. *)
(***************************************************************************)
NewQuestion(number, body, choices, confidence, section, tier) ==
    [questionNumber |-> number, question |-> body, choices |-> choices,
     answer |-> NULL, explanation |-> << >>, confidence |-> confidence,
     answerGuessed |-> FALSE, explanationGenerated |-> FALSE, qualityScore |-> 0,
     id |-> 0, section |-> section, tier |-> tier, finalized |-> 0,
     extractedAt |-> << >>]

\* the penalty of a guessed answer, in points
guessPenalty == 20

\* finalizeQuestion, the guess and the cleaning: the answer given or guessed,
\* the explanation given or generated, both texts cleaned
CleanedQuestion(question, answer) ==
    [question EXCEPT
        !.answer = answer,
        !.answerGuessed = @ \/ question.answer = NULL,
        !.explanationGenerated = @ \/ question.explanation = << >>,
        !.question = cleanQuestionText(question.question),
        !.explanation =
            cleanExplanationText(
                IF question.explanation = << >>
                THEN generateExplanation(question.question, answer, question.section)
                ELSE question.explanation)]

\* finalizeQuestion, the scoring: the quality score and the adjusted confidence,
\* clamped to 0..maxThreshold
ScoredQuestion(cleaned, base, totalScore) ==
    [cleaned EXCEPT
        !.qualityScore = totalScore,
        !.confidence = clamp(adjustConfidenceByQuality(base, totalScore),
                             0, maxThreshold * CONF_UNIT),
        !.finalized = @ + 1]

QualityScored(cleaned, base) ==
    ScoredQuestion(cleaned, base, calculateMultiDimensionalQuality(cleaned))

\* a finalizeQuestion that takes nothing off the confidence of a guessed answer
finalizeWithoutPenalty(question) ==
    QualityScored(
        CleanedQuestion(question,
                        IF question.answer = NULL
                        THEN guessAnswerFromQuestion(question.question)
                        ELSE question.answer),
        question.confidence)

\* finalizeQuestion(question)
finalizeQuestion(question) ==
    QualityScored(
        CleanedQuestion(question,
                        IF question.answer = NULL
                        THEN guessAnswerFromQuestion(question.question)
                        ELSE question.answer),
        IF question.answer = NULL THEN question.confidence - guessPenalty * CONF_UNIT
        ELSE question.confidence)

\* isValidQuestion(question), thresholdValue being the value of the
\* confidenceThreshold element of the page at the time of the call
isValidQuestion(question, thresholdValue) ==
    /\ Len(Trim(question.question)) >= minQuestionLength
    /\ question.questionNumber >= questionNumberMin
    /\ question.questionNumber <= questionNumberMax
    /\ question.confidence >= thresholdValue * CONF_UNIT

\* the shortest body and the highest threshold of the relaxed check
relaxedMinLength == 5

relaxedMaxThreshold == 50

\* isValidQuestionRelaxed(question)
isValidQuestionRelaxed(question, thresholdValue) ==
    /\ Len(Trim(question.question)) >= relaxedMinLength
    /\ question.questionNumber >= questionNumberMin
    /\ question.questionNumber <= questionNumberMax
    /\ question.confidence >= Min(thresholdValue, relaxedMaxThreshold) * CONF_UNIT

\* the hiragana, katakana and ideographs (U+3040-U+30FF, U+4E00-U+9FAF) that
\* texts of the model are written with
JapaneseChars ==
    {"U3042", "U3044", "U3046", "U3048", "U304A", "U304B", "U304C", "U304D",
     "U304F", "U3053", "U3057", "U3059", "U305D", "U3063", "U3064", "U3066",
     "U3067", "U3068", "U306A", "U306B", "U306E", "U306F", "U3073", "U307E",
     "U307F", "U3081", "U3084", "U3087", "U3088", "U308A", "U308B", "U3092",
     "U30A2", "U30A4", "U30A6", "U30A8", "U30AA", "U30AB", "U30AD", "U30AF",
     "U30B1", "U30B3", "U30B8", "U30C8", "U30DA", "U30DD", "U30F3", "U30FB",
     "U30FC", "U4E0A", "U4E0D", "U4E8B", "U4ED5", "U4ED6", "U4EE4", "U4EF6",
     "U4FA1", "U4FC2", "U501F", "U50B5", "U514D", "U516C", "U5185", "U5206",
     "U5207", "U5229", "U5236", "U529B", "U52B9", "U52D5", "U52D9", "U52E7",
     "U533A", "U5370", "U53D6", "U53EF", "U5404", "U554F", "U56FA", "U56FD",
     "U571F", "U5730", "U57FA", "U58EB", "U5951", "U5B66", "U5B85", "U5B9A",
     "U5BB6", "U5BB9", "U5E02", "U5EA6", "U5EFA", "U5F15", "U5F8B", "U5F97",
     "U5FA9", "U5FC5", "U6210", "U6240", "U624B", "U628A", "U62E0", "U63E1",
     "U6574", "U65B0", "U65B9", "U660E", "U66F4", "U66F8", "U6709", "U672C",
     "U6761", "U6839", "U696D", "U6A29", "U6B62", "U6B63", "U6C11", "U6CD5",
     "U6DF1", "U6E96", "U70B9", "U7121", "U7269", "U7406", "U7523", "U7528",
     "U7531", "U753B", "U767B", "U7684", "U78BA", "U793A", "U7981", "U7A0E",
     "U7A2E", "U7ACB", "U7AE0", "U7B2C", "U7B54", "U7BC9", "U7D04", "U7D19",
     "U7D30", "U7D44", "U7D9A", "U7FA9", "U7FD2", "U8005", "U80FD", "U88DC",
     "U8981", "U898F", "U89E3", "U8A08", "U8A18", "U8A31", "U8A55", "U8A73",
     "U8A8D", "U8AA4", "U8AAC", "U8CC7", "U8DB3", "U8F09", "U8FB2", "U8FF0",
     "U9023", "U9069", "U90FD", "U91CD", "U95A2", "U9650", "U9762", "U9805",
     "U984C"}

\* the test of isValidQuestionBasic for a hiragana, katakana or ideograph
HasJapanese(text) == \E i \in 1..Len(text) : text[i] \in JapaneseChars

\* the shortest body isValidQuestionBasic accepts
basicMinLength == 20

\* isValidQuestionBasic(question): no upper bound on the number
isValidQuestionBasic(question) ==
    /\ question.questionNumber >= 1
    /\ Len(question.question) >= basicMinLength
    /\ HasJapanese(question.question)

(***************************************************************************)
(* Tier 1: the pattern detector (the definitions in force, later in the    *)
(* object literal)                                                          *)
(***************************************************************************)
\* the body a match must exceed to become a candidate
candidateMinLength == 10

\* the candidate of detectWithPattern, kept when isValidQuestionBasic accepts it
Candidate(questionNumber, questionText, question) ==
    IF questionNumber # 0 /\ Len(questionText) > candidateMinLength
       /\ isValidQuestionBasic(question)
    THEN << question >>
    ELSE << >>

\* the question object of one match: metadata.extractedAt is the instant new
\* Date() returns
StampedQuestion(p, questionNumber, questionText, now) ==
    [NewQuestion(questionNumber, questionText, extractChoices(questionText),
                 PatternConfidence100(p) * CONF_UNIT, NULL, 1)
         EXCEPT !.extractedAt = << now >>]

\* a question object that takes its id from the clock as well
CandidateWithClockId(p, questionNumber, questionText, now) ==
    Candidate(questionNumber, questionText,
              [StampedQuestion(p, questionNumber, questionText, now) EXCEPT !.id = now])

CandidateOf(p, questionNumber, questionText, now) ==
    Candidate(questionNumber, questionText,
              StampedQuestion(p, questionNumber, questionText, now))

\* the question detectWithPattern builds from one match, as a sequence of zero
\* or one question
MatchQuestion(p, match, now) ==
    CandidateOf(p, ParseInt(match.num), Trim(match.body), now)

RECURSIVE Flatten(_)
Flatten(seqs) ==
    IF Len(seqs) = 0 THEN << >>
    ELSE IF Len(seqs) = 1 THEN seqs[1]
    ELSE Flatten(SubSeq(seqs, 1, Len(seqs) \div 2))
             \o Flatten(SubSeq(seqs, Len(seqs) \div 2 + 1, Len(seqs)))

PatternResult(p, text, matches, questions) ==
    [pattern |-> p, questions |-> questions, totalMatches |-> Len(matches),
     validQuestions |-> Len(questions), textLength |-> Len(text)]

MatchQuestions(p, matches, now) ==
    Flatten([k \in 1..Len(matches) |-> MatchQuestion(p, matches[k], now)])

ResultOfMatches(p, text, matches, now) ==
    PatternResult(p, text, matches, MatchQuestions(p, matches, now))

\* detectWithPattern(text, patternConfig): every pattern carries the s flag
detectWithPattern(text, p, now) ==
    ResultOfMatches(p, text, MatchAll(p, text, PatternMultiline(p), TRUE), now)

\* calculatePatternScore(result) times 10 * totalMatches * textLength:
\*   0.4 count + 0.3 (valid / total * 100) + 0.2 (total * 50 / length)
\*   + 0.1 (100 * pattern confidence), at most 100
ScoreNum(r) ==
    Min(4 * Len(r.questions) * r.totalMatches * r.textLength
        + 300 * r.validQuestions * r.textLength
        + 100 * r.totalMatches * r.totalMatches
        + PatternConfidence100(r.pattern) * r.totalMatches * r.textLength,
        100 * 10 * r.totalMatches * r.textLength)

ScoreGreater(a, b) == ScoreNum(a) * b.totalMatches > ScoreNum(b) * a.totalMatches

\* CONFIG.PARSING.confidence.minimumThreshold is not configured: || 20
minimumThreshold == 20

ScoreBelowMinimum(r) == ScoreNum(r) < minimumThreshold * 10 * r.totalMatches * r.textLength

\* the loop of selectBestPattern: the first result of the highest score, as a
\* sequence of zero or one result
RECURSIVE BestOf(_, _)
BestOf(best, results) ==
    IF results = << >> THEN best
    ELSE IF best = << >> \/ ScoreGreater(Head(results), best[1])
    THEN BestOf(<< Head(results) >>, Tail(results))
    ELSE BestOf(best, Tail(results))

\* selectBestPattern(detectionResults)
selectBestPattern(detectionResults) ==
    LET Checked(best) == IF best = << >> \/ ScoreBelowMinimum(best[1]) THEN << >> ELSE best
    IN  Checked(BestOf(<< >>, detectionResults))

\* the questions of the selected result, none without one
QuestionsOf(bestPattern) ==
    IF bestPattern # << >> THEN bestPattern[1].questions ELSE << >>

\* the attempts up to the first that yields a question
UntilFirstYield(results) ==
    SubSeq(results, 1,
           Least({k \in 1..Len(results) : Len(results[k].questions) > 0} \cup {Len(results)}))

\* a detector that stops at the first pattern that yields a question
AttemptsUntilFirstYield(text, now) ==
    UntilFirstYield([p \in 1..NumPatterns |-> detectWithPattern(text, p, now)])

\* detectQuestionsAdaptive, the attempts: detectWithPattern for every pattern
detectionAttempts(text, now) ==
    [p \in 1..NumPatterns |-> detectWithPattern(text, p, now)]

\* detectQuestionsAdaptive, the selection: the results with questions are
\* scored, the questions of the best one are returned
QuestionsOfBest(results) ==
    QuestionsOf(selectBestPattern(FilterSeq(LAMBDA r : Len(r.questions) > 0, results)))

\* detectQuestionsAdaptive(text)
detectQuestionsAdaptive(text, now) == QuestionsOfBest(detectionAttempts(text, now))


(***************************************************************************)
(* Tier 2: the line-oriented scan                                           *)
(***************************************************************************)
\* createNewQuestion(id, questionMatch, section, fileName, lineIndex)
createNewQuestion(questionMatch, section) ==
    NewQuestion(questionMatch.number, questionMatch.questionText, << >>,
                (baseScore + questionNumberFound) * CONF_UNIT, section, 2)

\* a close that saves nothing
CloseWithoutSaving(questions, current, thresholdValue) == questions

\* the open question, closed: kept and finalized when it passes the relaxed check
CloseQuestion(questions, current, thresholdValue) ==
    IF current # << >> /\ isValidQuestionRelaxed(current[1], thresholdValue)
    THEN Append(questions, finalizeQuestion(current[1]))
    ELSE questions

\* one line of the while loop: the open question after the line, given what
\* the three detectors found on it; current is the open question as a sequence
\* of zero or one question
LineCurrent(current, line, section, questionMatch, answer, explanation) ==
    IF questionMatch.ok
    THEN << createNewQuestion(questionMatch, section) >>
    ELSE IF current = << >>
    THEN current
    ELSE IF current[1].answer = NULL /\ answer # NULL
    THEN << [current[1] EXCEPT
               !.answer = answer,
               !.confidence = @ + answerFound * CONF_UNIT] >>
    ELSE IF explanation # NULL
    THEN << [current[1] EXCEPT
               !.explanation = explanation,
               !.confidence = @ + explanationFound * CONF_UNIT] >>
    ELSE << [current[1] EXCEPT !.question = appendToQuestion(@, line)] >>

\* one line of the while loop: the questions saved after the line
LineQuestions(questions, current, thresholdValue, questionMatch) ==
    IF questionMatch.ok
    THEN CloseQuestion(questions, current, thresholdValue)
    ELSE questions

\* the while loop of fallbackExtraction from line lineIndex on
RECURSIVE FallbackLoop(_, _, _, _, _, _)
\* one line of the loop, given what the three detectors found on it
FallbackStep(lines, lineIndex, current, questions, section, thresholdValue, questionMatch, answer, explanation) ==
    FallbackLoop(lines, lineIndex + 1,
                 LineCurrent(current, lines[lineIndex], section, questionMatch, answer, explanation),
                 LineQuestions(questions, current, thresholdValue, questionMatch),
                 section, thresholdValue)

FallbackLoop(lines, lineIndex, current, questions, section, thresholdValue) ==
    IF lineIndex > Len(lines) THEN CloseQuestion(questions, current, thresholdValue)
    ELSE FallbackStep(lines, lineIndex, current, questions, section, thresholdValue,
                      detectQuestionNumber(lines[lineIndex]),
                      detectAnswer(lines[lineIndex]),
                      detectExplanation(lines[lineIndex]))

\* fallbackExtraction(lines, section, fileName, options)
fallbackExtraction(lines, section, thresholdValue) ==
    FallbackLoop(lines, 1, << >>, << >>, section, thresholdValue)

(***************************************************************************)
(* Tier 3: the emergency extraction                                         *)
(***************************************************************************)
NoPrefix == [ok |-> FALSE, number |-> 0, len |-> 0]

\* the five simplePatterns of emergencySimpleExtraction on a line: the number
\* and the length of the matched prefix
EmergencyMatch(k, line) ==
    LET Found(numStart, numLen, prefixLen) ==
            [ok |-> TRUE, number |-> ParseInt(SubSeq(line, numStart, numStart + numLen - 1)),
             len |-> prefixLen]
        Bracket(e) ==
            IF StartsWithAt(line, 1, << "(" >>) /\ e >= 1
               /\ StartsWithAt(line, 2 + e, << ")" >>)
            THEN Found(2, e, e + 2) ELSE NoPrefix
        Spaced(d, n) == IF d >= 1 /\ n >= 1 THEN Found(1, d, d + n) ELSE NoPrefix
        Plain(d) ==
            LET After(set) == d >= 1 /\ d + 1 <= Len(line) /\ line[d + 1] \in set
            IN  CASE k = 1 ->
                       IF d >= 1 /\ d + 1 <= Len(line)
                          /\ (line[d + 1] \in {".", cFDOT, cKUTEN} \/ IsSpace(line[d + 1]))
                       THEN Found(1, d, d + 1) ELSE NoPrefix
                  [] k = 2 -> IF After({")"}) THEN Found(1, d, d + 1) ELSE NoPrefix
                  [] k = 4 -> IF After({":"}) THEN Found(1, d, d + 1) ELSE NoPrefix
                  [] k = 5 -> Spaced(d, RunLen(IsSpace, line, d + 1))
    IN  IF k = 3 THEN Bracket(RunLen(IsDigit, line, 2))
        ELSE Plain(RunLen(IsDigit, line, 1))

\* the largest number the emergency extraction takes for a question number
emergencyNumberMax == 999

\* the first pattern that matches with a number in 1..999, or 0
EmergencyPattern(line) ==
    LET Hit(m) == m.ok /\ m.number >= 1 /\ m.number <= emergencyNumberMax
    IN  Least({k \in 1..5 : Hit(EmergencyMatch(k, line))})

\* a line that looks like the next question: a pattern gives a number within
\* +1..+3 of the current one
IsNextQuestion(nextLine, questionNumber) ==
    LET Hit(m) == m.ok /\ m.number > questionNumber /\ m.number <= questionNumber + 3
    IN  \E k \in 1..5 : Hit(EmergencyMatch(k, nextLine))

\* /^(kotae|kaitou|kaisetsu|seikai)[:U+FF1A]/i or a lone mark: not absorbed
LooksLikeAnswer(nextLine) ==
    \/ \E kw \in {<< cKOTAE, cE >>, << cKOTAE >>, << cKAI, cKOTAE >>,
                  << cKAI, cSETSU >>, << cSEI, cKAI >>} :
          /\ StartsWithAt(nextLine, 1, kw)
          /\ Len(nextLine) > Len(kw) /\ nextLine[Len(kw) + 1] \in {":", cFCOLON}
    \/ (Len(nextLine) = 1 /\ nextLine[1] \in MarkChars)

\* the lines a question absorbs
absorbMaxLength == 200

absorbWindow == 10

\* the inner loop over the lines j after line i (1-based; up to 9 lines)
RECURSIVE Absorb(_, _, _, _, _)
AbsorbLine(lines, j, last, questionNumber, questionText, nextLine) ==
    IF IsNextQuestion(nextLine, questionNumber) THEN questionText
    ELSE IF /\ Len(nextLine) > 0
            /\ ~LooksLikeAnswer(nextLine)
            /\ Len(nextLine) < absorbMaxLength
    THEN Absorb(lines, j + 1, last, questionNumber, questionText \o << cSP >> \o nextLine)
    ELSE Absorb(lines, j + 1, last, questionNumber, questionText)

Absorb(lines, j, last, questionNumber, questionText) ==
    IF j > last THEN questionText
    ELSE AbsorbLine(lines, j, last, questionNumber, questionText, Trim(lines[j]))

\* whether the inner loop adds the line to the question text
Absorbable(nextLine) ==
    /\ Len(nextLine) > 0
    /\ ~LooksLikeAnswer(nextLine)
    /\ Len(nextLine) < absorbMaxLength

\* the lines j..last the inner loop adds to the text of the question numbered
\* questionNumber: those before the break that pass the test
RECURSIVE AbsorbedLines(_, _, _, _)
AbsorbedLines(lines, j, last, questionNumber) ==
    IF j > last THEN {}
    ELSE IF IsNextQuestion(Trim(lines[j]), questionNumber) THEN {}
    ELSE (IF Absorbable(Trim(lines[j])) THEN {j} ELSE {})
             \cup AbsorbedLines(lines, j + 1, last, questionNumber)

\* the confidence of an emergency question, its shortest line and body
emergencyConfidence == 30

emergencyMinLine == 5

emergencyMinText == 10

\* the emergency question of a body, none when the body is too short
EmergencyMade(number, questionText, section) ==
    IF Len(questionText) < emergencyMinText THEN << >>
    ELSE << NewQuestion(number, questionText, << >>,
                        emergencyConfidence * CONF_UNIT, section, 3) >>

\* the rest of the line after the prefix m, with the lines it absorbs
EmergencyMatched(lines, i, section, line, m) ==
    EmergencyMade(m.number,
                  Absorb(lines, i + 1, Min(i + absorbWindow - 1, Len(lines)), m.number,
                         Trim(From(line, m.len + 1))),
                  section)

EmergencyTried(lines, i, section, line, k) ==
    IF Len(line) < emergencyMinLine \/ k = 0 THEN << >>
    ELSE EmergencyMatched(lines, i, section, line, EmergencyMatch(k, line))

EmergencyLine(lines, i, section, line) ==
    EmergencyTried(lines, i, section, line, EmergencyPattern(line))

\* the question line i starts, as a sequence of zero or one question
EmergencyQuestion(lines, i, section) == EmergencyLine(lines, i, section, Trim(lines[i]))

\* emergencySimpleExtraction(lines, section, fileName)
emergencySimpleExtraction(lines, section) ==
    Flatten([i \in 1..Len(lines) |-> EmergencyQuestion(lines, i, section)])


(***************************************************************************)
(* Post-processing                                                          *)
(***************************************************************************)
\* the length of the body prefix that enters the duplicate key
keyPrefixLength == 50

\* the key of removeDuplicateQuestions: number, "_" and the first 50 characters
\* of the body; two keys are equal exactly when both parts are
DuplicateKey(question) ==
    << question.questionNumber, Substring(question.question, 0, keyPrefixLength) >>

\* a removeDuplicateQuestions that removes nothing
KeepDuplicates(questions) == questions

\* removeDuplicateQuestions(questions): the first question of each key
RECURSIVE UniqueLoop(_, _, _)
UniqueLoop(questions, seen, unique) ==
    IF questions = << >> THEN unique
    ELSE IF DuplicateKey(Head(questions)) \in seen
    THEN UniqueLoop(Tail(questions), seen, unique)
    ELSE UniqueLoop(Tail(questions), seen \cup {DuplicateKey(Head(questions))},
                    Append(unique, Head(questions)))

removeDuplicateQuestions(questions) == UniqueLoop(questions, {}, << >>)

\* a sort that leaves the order of detection
Unsorted(questions) == questions

\* q placed in a list sorted by questionNumber, after the questions that do not
\* compare greater (Array.prototype.sort is stable)
RECURSIVE InsertSorted(_, _)
InsertSorted(sorted, q) ==
    IF sorted = << >> THEN << q >>
    ELSE IF Head(sorted).questionNumber > q.questionNumber THEN << q >> \o sorted
    ELSE << Head(sorted) >> \o InsertSorted(Tail(sorted), q)

\* questions.sort((a, b) => (a.questionNumber || 0) - (b.questionNumber || 0))
RECURSIVE SortLoop(_, _)
SortLoop(sorted, rest) ==
    IF rest = << >> THEN sorted ELSE SortLoop(InsertSorted(sorted, Head(rest)), Tail(rest))

sortByQuestionNumber(questions) == SortLoop(<< >>, questions)

\* postProcessQuestions(questions, options): finalize every question, keep those
\* isValidQuestion accepts, remove duplicates, sort
postProcessQuestions(questions, thresholdValue) ==
    sortByQuestionNumber(
        removeDuplicateQuestions(
            FilterSeq(LAMBDA q : isValidQuestion(q, thresholdValue),
                      MapSeq(finalizeQuestion, questions))))

\* the forEach that closes extractQuestions: id and section of every question
setMetadata(questions, section) ==
    [i \in 1..Len(questions) |-> [questions[i] EXCEPT !.id = i, !.section = section]]

\* the patterns extractQuestions collects
collectPatterns(questions, section) ==
    [questionNumbers |-> MapSeq(LAMBDA q : q.questionNumber, questions),
     answers |-> MapSeq(LAMBDA q : q.answer, FilterSeq(LAMBDA q : q.answer # NULL, questions)),
     sections |-> << section >>]

\* calculateParsingStats(questions, extractionResult): the counts
highConfidence == 80

mediumConfidence == 50

calculateParsingStats(questions) ==
    LET count(P(_)) == Len(FilterSeq(P, questions))
    IN  [totalQuestions |-> Len(questions),
         confidenceDistribution |->
             [high |-> count(LAMBDA q : q.confidence >= highConfidence * CONF_UNIT),
              medium |-> count(LAMBDA q : /\ q.confidence < highConfidence * CONF_UNIT
                                         /\ q.confidence >= mediumConfidence * CONF_UNIT),
              low |-> count(LAMBDA q : q.confidence < mediumConfidence * CONF_UNIT)],
         answerDistribution |->
             [correct |-> count(LAMBDA q : q.answer = cMARU),
              incorrect |-> count(LAMBDA q : q.answer # cMARU)]]

\* the object parseQuestions returns from its try block
SuccessResult(processedQuestions, patterns, fileName, section) ==
    [questions |-> processedQuestions,
     patterns |-> patterns,
     statistics |-> calculateParsingStats(processedQuestions),
     metadata |-> [fileName |-> fileName, detectedSection |-> section]]

\* a catch block that loses the message of the exception
ErrorResultWithoutMessage(fileName, message) ==
    [questions |-> << >>,
     patterns |-> << >>,
     statistics |-> << >>,
     metadata |-> [fileName |-> fileName, error |-> NULL]]

\* the object parseQuestions returns from its catch block
ErrorResult(fileName, message) ==
    [questions |-> << >>,
     patterns |-> << >>,
     statistics |-> << >>,
     metadata |-> [fileName |-> fileName, error |-> message]]


(***************************************************************************)
(* The documents and the page the parser is run with                        *)
(***************************************************************************)
\* a body of 22 hiragana
Body22 == Rep(cKA, 22)

\* a title line that ends with an answer mark, so that mergeShortLines leaves it
\* on its own: takken maru batsu
TitleLine == << "U5B85", "U5EFA", cMARU, cBATSU >>

\* the fragments documents are made of
Fragments ==
    << << cMON, "1", cSP >> \o Body22,
       << "1", "0", "2", cSP >> \o Body22,
       << "1", "0", "1", cSP >> \o Body22,
       << cKOTAE, cE, ":", "3" >>,
       << cKOTAE, cE, ":", cMARU, cNL >>
           \o << cKAI, cSETSU, ":" >> \o Body22 \o << cNL >>
           \o << "U88DC", "U8DB3", ":" >> \o Body22 \o << cNL >>
           \o << "U7406", "U7531", ":" >> \o Body22,
       << cMON, "1", "0", "0", "0", "0", "0", cSP >> \o Body22,
       << "1", ".", cSP, cKA, cMARU, cNL >> \o Body22 \o << cMARU >>,
       << "1", "0", "0", "1", cSP, cKA, cKA, cNL >>
           \o << "1", "0", "0", "1", cSP, cKA, cKA, cNL >>
           \o << "1", "0", "0", "1", cSP, cKA, cKA, cNL >>
           \o << "1", "0", "0", "2", cSP >> \o Body22 >>

\* the most fragments in a document
MaxFragments == 2

\* the documents: an optional title line, then 1..MaxFragments fragments, one
\* per line
Documents ==
    { (IF titled THEN TitleLine \o << cNL >> ELSE << >>)
          \o Join([i \in 1..n |-> Fragments[pick[i]]], << cNL >>) :
      titled \in BOOLEAN, n \in 1..MaxFragments, pick \in [1..MaxFragments -> 1..Len(Fragments)] }

\* the instants new Date() returns to a call, in milliseconds after the first
Instants == {0, 1}

\* the file names a document comes with
FileNames == { << "R", "6", ".", "p", "d", "f" >> }

\* the positions of the confidenceThreshold slider of the page that the model
\* visits (index.html: 0 to 100, initially 0)
SliderValues == {0, 80}

initialSliderValue == 0

\* the messages of the TypeErrors a null text or file name raises
msgTextNull == "Cannot read properties of null (reading 'length')"

msgFileNameNull == "Cannot read properties of null (reading 'toLowerCase')"

VARIABLES
    pc,                 \* the position of the run: idle, extracting, or inside parseQuestions
    sliderValue,        \* the value of the confidenceThreshold element of the page
    options,            \* the options extractFromPDFs built
    text,               \* the text parseQuestions was called with, or NULL
    fileName,           \* the file name it was called with, or NULL
    cleanedText,        \* TextCleaner.cleanJapaneseText(text)
    lines,              \* preprocessText(cleanedText)
    detectedSection,    \* detectSection(cleanedText, fileName)
    attempts,           \* the result of detectWithPattern for every pattern
    tiersRun,           \* history: the tiers run so far and how many questions each gave
    questions,          \* the questions of extractQuestions
    patterns,           \* the patterns of extractQuestions
    processedQuestions, \* the questions of postProcessQuestions
    error,              \* the message of the exception raised inside the try block, or NULL
    result,             \* what parseQuestions returned, or NULL
    extractionResults,  \* the results of PDFExtractor.extractFromMultipleFiles not yet parsed
    extractedData,      \* state.extractedData of the page
    parsed,             \* history: what every file of the batch contributed
    applied,            \* a method of QuestionParser called on its own: arguments and value
    pagePc,             \* the position of extractAllPages: idle, loop or await
    hardwareConcurrency,\* navigator.hardwareConcurrency, 0 where the browser has none
    pageChunks,         \* the chunks of page numbers extractAllPages has still to finish
    pageSettled,        \* the promises of the chunk awaited that settled: page and success
    pageTexts,          \* pageTexts of extractAllPages: for every page, whether it has text
    filePc,             \* the position of extractFromMultipleFiles: idle, loop, await or returned
    files,              \* the files extractFromMultipleFiles was called with
    fileChunks,         \* the chunks of files it has still to finish
    fileSettled,        \* the promises of the chunk awaited that settled: place and entry
    fileResults,        \* results of extractFromMultipleFiles
    completedFiles,     \* completedFiles of extractFromMultipleFiles
    progressCalls,      \* history: the arguments of every call of progressCallback
    returned,           \* what extractFromMultipleFiles returned
    isProcessing,       \* state.isProcessing of the page
    uploadedFiles,      \* state.uploadedFiles.length
    extractBtnDisabled, \* extractBtn.disabled
    runs,               \* the calls of extractFromPDFs in the order they started
    scanPc,             \* the position of fallbackExtraction: idle, loop or returned
    scanLines,          \* lines of fallbackExtraction
    lineIndex,          \* lineIndex of fallbackExtraction
    currentQuestion,    \* currentQuestion of fallbackExtraction: zero or one question
    scanQuestions       \* questions of fallbackExtraction

vars == << pc, sliderValue, options, text, fileName, cleanedText, lines, detectedSection,
           attempts, tiersRun, questions, patterns, processedQuestions, error, result,
           extractionResults, extractedData, parsed, applied,
           pagePc, hardwareConcurrency, pageChunks, pageSettled, pageTexts,
           filePc, files, fileChunks, fileSettled, fileResults, completedFiles, progressCalls,
           returned, isProcessing, uploadedFiles, extractBtnDisabled, runs,
           scanPc, scanLines, lineIndex, currentQuestion, scanQuestions >>

\* the variables of extractAllPages
pageVars == << pagePc, hardwareConcurrency, pageChunks, pageSettled, pageTexts >>

\* the variables of extractFromMultipleFiles
fileVars == << filePc, files, fileChunks, fileSettled, fileResults, completedFiles,
               progressCalls, returned >>

\* the variables of the triggers of extractFromPDFs
runVars == << isProcessing, uploadedFiles, extractBtnDisabled, runs >>

\* the variables of fallbackExtraction run line by line
scanVars == << scanPc, scanLines, lineIndex, currentQuestion, scanQuestions >>

\* the variables the parser and the loop over the files leave alone
concurrent == << pageVars, fileVars, runVars, scanVars >>

\* the variables a call of parseQuestions leaves alone
outside == << extractionResults, extractedData, parsed, applied >>

\* the variables of one call of parseQuestions, before the call
CallReset ==
    /\ cleanedText = << >>
    /\ lines = << >>
    /\ detectedSection = NULL
    /\ attempts = << >>
    /\ tiersRun = << >>
    /\ questions = << >>
    /\ patterns = NULL
    /\ processedQuestions = << >>
    /\ error = NULL
    /\ result = NULL

Init ==
    /\ pc = "idle"
    /\ sliderValue = initialSliderValue
    /\ options = NULL
    /\ text = NULL
    /\ fileName = NULL
    /\ CallReset
    /\ extractionResults = << >>
    /\ extractedData = << >>
    /\ parsed = << >>
    /\ applied = << >>
    /\ pagePc = "idle"
    /\ hardwareConcurrency = 0
    /\ pageChunks = << >>
    /\ pageSettled = {}
    /\ pageTexts = << >>
    /\ filePc = "idle"
    /\ files = << >>
    /\ fileChunks = << >>
    /\ fileSettled = {}
    /\ fileResults = << >>
    /\ completedFiles = 0
    /\ progressCalls = << >>
    /\ returned = << >>
    /\ isProcessing = FALSE
    /\ uploadedFiles = 0
    /\ extractBtnDisabled = TRUE
    /\ runs = << >>
    /\ scanPc = "idle"
    /\ scanLines = << >>
    /\ lineIndex = 0
    /\ currentQuestion = << >>
    /\ scanQuestions = << >>

\* the user moves the slider; nothing disables it while an extraction is under way
SliderInput ==
    /\ pc \in {"idle", "extracting"}
    /\ \E v \in SliderValues \ {sliderValue} : sliderValue' = v
    /\ UNCHANGED << pc, options, text, fileName, cleanedText, lines, detectedSection,
                    attempts, tiersRun, questions, patterns, processedQuestions, error, result >>
    /\ UNCHANGED outside
    /\ UNCHANGED concurrent

\* extractFromPDFs up to the PDF extraction it awaits: the options are read from
\* the page
extractFromPDFs ==
    /\ pc = "idle"
    /\ options' = [confidenceThreshold |-> sliderValue]
    /\ extractedData' = << >>
    /\ parsed' = << >>
    /\ pc' = "extracting"
    /\ UNCHANGED << sliderValue, text, fileName, cleanedText, lines, detectedSection,
                    attempts, tiersRun, questions, patterns, processedQuestions, error, result >>
    /\ UNCHANGED << extractionResults, applied >>
    /\ UNCHANGED concurrent

\* parseQuestions(t, f, options) is entered; the first statements of the try
\* block read text.length
Enter(t, f) ==
    /\ pc = "extracting"
    /\ text' = t
    /\ fileName' = f
    /\ IF t = NULL
       THEN error' = msgTextNull /\ pc' = "catch"
       ELSE error' = NULL /\ pc' = "clean"
    /\ UNCHANGED << sliderValue, options, cleanedText, lines, detectedSection,
                    attempts, tiersRun, questions, patterns, processedQuestions, result >>
    /\ UNCHANGED outside
    /\ UNCHANGED concurrent

\* the calls of parseQuestions: a document or null, a file name or null
parseQuestions ==
    \/ \E t \in Documents, f \in FileNames : Enter(t, f)
    \/ \E t \in Documents : Enter(t, NULL)
    \/ \E f \in FileNames : Enter(NULL, f)

\* cleanJapaneseText and preprocessText
cleanAndSplit ==
    /\ pc = "clean"
    /\ cleanedText' = cleanJapaneseText(text)
    /\ lines' = preprocessText(cleanedText')
    /\ pc' = "section"
    /\ UNCHANGED << sliderValue, options, text, fileName, detectedSection,
                    attempts, tiersRun, questions, patterns, processedQuestions, error, result >>
    /\ UNCHANGED outside
    /\ UNCHANGED concurrent

\* detectSection(cleanedText, fileName); fileName.toLowerCase() throws on null
sectionStep ==
    /\ pc = "section"
    /\ IF fileName = NULL
       THEN error' = msgFileNameNull /\ pc' = "catch" /\ UNCHANGED detectedSection
       ELSE /\ detectedSection' = detectSection(cleanedText, fileName)
            /\ pc' = "tier1"
            /\ UNCHANGED error
    /\ UNCHANGED << sliderValue, options, text, fileName, cleanedText, lines,
                    attempts, tiersRun, questions, patterns, processedQuestions, result >>
    /\ UNCHANGED outside
    /\ UNCHANGED concurrent

\* a test that sends every run on to the next tier
AlwaysFallback(found) == TRUE

\* extractQuestions: if (questions.length === 0), after Tier 1 and after Tier 2
NeedsFallback(found) == Len(found) = 0

\* extractQuestions, Tier 1: detectQuestionsAdaptive(lines.join('\n')), its
\* attempts kept; the clock does not advance during the call
tier1 ==
    /\ pc = "tier1"
    /\ \E now \in Instants : attempts' = detectionAttempts(Join(lines, << cNL >>), now)
    /\ questions' = QuestionsOfBest(attempts')
    /\ tiersRun' = Append(tiersRun, [tier |-> 1, found |-> Len(questions')])
    /\ pc' = IF NeedsFallback(questions') THEN "tier2" ELSE "metadata"
    /\ UNCHANGED << sliderValue, options, text, fileName, cleanedText, lines, detectedSection,
                    patterns, processedQuestions, error, result >>
    /\ UNCHANGED outside
    /\ UNCHANGED concurrent

\* extractQuestions, Tier 2: fallbackExtraction, with the threshold the page
\* holds when isValidQuestionRelaxed reads it
tier2 ==
    /\ pc = "tier2"
    /\ questions' = fallbackExtraction(lines, detectedSection, sliderValue)
    /\ tiersRun' = Append(tiersRun, [tier |-> 2, found |-> Len(questions')])
    /\ pc' = IF NeedsFallback(questions') THEN "tier3" ELSE "metadata"
    /\ UNCHANGED << sliderValue, options, text, fileName, cleanedText, lines, detectedSection,
                    attempts, patterns, processedQuestions, error, result >>
    /\ UNCHANGED outside
    /\ UNCHANGED concurrent

\* extractQuestions, Tier 3: emergencySimpleExtraction
tier3 ==
    /\ pc = "tier3"
    /\ questions' = emergencySimpleExtraction(lines, detectedSection)
    /\ tiersRun' = Append(tiersRun, [tier |-> 3, found |-> Len(questions')])
    /\ pc' = "metadata"
    /\ UNCHANGED << sliderValue, options, text, fileName, cleanedText, lines, detectedSection,
                    attempts, patterns, processedQuestions, error, result >>
    /\ UNCHANGED outside
    /\ UNCHANGED concurrent

\* extractQuestions, its closing forEach
metadataStep ==
    /\ pc = "metadata"
    /\ questions' = setMetadata(questions, detectedSection)
    /\ patterns' = collectPatterns(questions, detectedSection)
    /\ pc' = "post"
    /\ UNCHANGED << sliderValue, options, text, fileName, cleanedText, lines, detectedSection,
                    attempts, tiersRun, processedQuestions, error, result >>
    /\ UNCHANGED outside
    /\ UNCHANGED concurrent

\* postProcessQuestions(extractionResult.questions, options)
postProcess ==
    /\ pc = "post"
    /\ processedQuestions' = postProcessQuestions(questions, sliderValue)
    /\ pc' = "stats"
    /\ UNCHANGED << sliderValue, options, text, fileName, cleanedText, lines, detectedSection,
                    attempts, tiersRun, questions, patterns, error, result >>
    /\ UNCHANGED outside
    /\ UNCHANGED concurrent

\* the return of the try block
returnResult ==
    /\ pc = "stats"
    /\ result' = SuccessResult(processedQuestions, patterns, fileName, detectedSection)
    /\ pc' = "done"
    /\ UNCHANGED << sliderValue, options, text, fileName, cleanedText, lines, detectedSection,
                    attempts, tiersRun, questions, patterns, processedQuestions, error >>
    /\ UNCHANGED outside
    /\ UNCHANGED concurrent

\* the catch block
catchError ==
    /\ pc = "catch"
    /\ result' = ErrorResult(fileName, error)
    /\ pc' = "done"
    /\ UNCHANGED << sliderValue, options, text, fileName, cleanedText, lines, detectedSection,
                    attempts, tiersRun, questions, patterns, processedQuestions, error >>
    /\ UNCHANGED outside
    /\ UNCHANGED concurrent

\* extractFromPDFs takes the questions of the result and ends
collect ==
    /\ pc = "done"
    /\ pc' = "idle"
    /\ options' = NULL
    /\ text' = NULL
    /\ fileName' = NULL
    /\ cleanedText' = << >>
    /\ lines' = << >>
    /\ detectedSection' = NULL
    /\ attempts' = << >>
    /\ tiersRun' = << >>
    /\ questions' = << >>
    /\ patterns' = NULL
    /\ processedQuestions' = << >>
    /\ error' = NULL
    /\ result' = NULL
    /\ UNCHANGED sliderValue
    /\ UNCHANGED outside
    /\ UNCHANGED concurrent

Next ==
    \/ SliderInput
    \/ extractFromPDFs
    \/ parseQuestions
    \/ cleanAndSplit
    \/ sectionStep
    \/ tier1
    \/ tier2
    \/ tier3
    \/ metadataStep
    \/ postProcess
    \/ returnResult
    \/ catchError
    \/ collect

Spec == Init /\ [][Next]_vars

(***************************************************************************)
(* The methods of QuestionParser called on their own                       *)
(***************************************************************************)
\* the first detectWithPattern's limit on the matches of a pattern
matchCap == 1000

\* lines of a number, a space and a body
NumberedLines ==
    { num \o << cSP >> \o body :
        num \in { << "1", "0", "1" >>, << "1", "0", "2", "4" >> },
        body \in { Body22, Rep(cKA, 5) } }

\* how many copies of a line a text is made of
LineCounts == {1, 2, 3, matchCap, matchCap + 1}

\* n copies of a line, one per line
CopiesText(line, n) ==
    [k \in 1..(n * (Len(line) + 1) - 1) |->
        IF k % (Len(line) + 1) = 0 THEN cNL ELSE line[k % (Len(line) + 1)]]

\* a match moved along the text
Shifted(match, by) == [match EXCEPT !.start = @ + by, !.end = @ + by]

\* [...text.matchAll(regex)] of pattern 12, the pattern with the m flag, on n
\* copies of a line it matches: ^ and $ hold at every line break, so that every
\* copy is matched as the line alone is
CopiesMatches(line, n) ==
    [k \in 1..n |-> Shifted(MatchAll(12, line, TRUE, TRUE)[1], (k - 1) * (Len(line) + 1))]

\* detectWithPattern(text, pattern 12) on n copies of a line
detectWithPatternOnCopies(line, n, now) ==
    ResultOfMatches(12, CopiesText(line, n), CopiesMatches(line, n), now)

\* on the texts MatchAll is computed for, the matches of the copies are those
\* of matchAll
CopiesMatchesAgree ==
    \A line \in NumberedLines, n \in 1..3 :
        CopiesMatches(line, n) = MatchAll(12, CopiesText(line, n), TRUE, TRUE)

\* the variables of the page and of a call of parseQuestions
inside == << pc, sliderValue, options, text, fileName, cleanedText, lines, detectedSection,
             attempts, tiersRun, questions, patterns, processedQuestions, error, result >>

\* detectWithPattern is called with a text of copies of a line
callDetectWithPattern ==
    /\ applied = << >>
    /\ \E line \in NumberedLines, n \in LineCounts, now \in Instants :
          applied' = << [method |-> "detectWithPattern",
                         arguments |-> << line, n >>,
                         value |-> detectWithPatternOnCopies(line, n, now)] >>
    /\ UNCHANGED << inside, extractionResults, extractedData, parsed >>
    /\ UNCHANGED concurrent

\* the answer marks a question can end with
AnswerMarks == {cMARU, cWMARU, cBATSU}

\* texts in the format NNNNN<text><mark>: two questions, each a five-digit number,
\* a body and an answer mark
AnchoredTexts ==
    { << "1", "0", "0", "0", "1" >> \o body \o << first >>
          \o << "1", "0", "0", "0", "2" >> \o body \o << second >> :
        body \in { Body22, Rep(cKA, 7) }, first \in AnswerMarks, second \in AnswerMarks }

\* detectQuestionsAdaptive is called with a text in the format NNNNN<text><mark>
callDetectQuestionsAdaptive ==
    /\ applied = << >>
    /\ \E t \in AnchoredTexts, now \in Instants :
          applied' = << [method |-> "detectQuestionsAdaptive",
                         arguments |-> << t >>,
                         value |-> detectQuestionsAdaptive(t, now)] >>
    /\ UNCHANGED << inside, extractionResults, extractedData, parsed >>
    /\ UNCHANGED concurrent

\* question texts with no keyword, one positive, one negative, one of each, and
\* the empty text
KeywordBodies ==
    { << >>, Body22 \o << cKUTEN >>, Body22 \o positiveKeywords[1],
      Body22 \o negativeKeywords[6],
      Body22 \o positiveKeywords[1] \o negativeKeywords[6] }

\* questions on their way into finalizeQuestion: without an answer, or with the
\* answer of an earlier step or of an earlier finalization
UnfinalizedQuestions ==
    { [NewQuestion(1, body, << >>, confidence * CONF_UNIT, "KENRI", 2)
          EXCEPT !.answer = answer, !.answerGuessed = guessed] :
        body \in KeywordBodies, confidence \in {50, 95},
        answer \in {NULL, cMARU, cBATSU}, guessed \in BOOLEAN }

\* finalizeQuestion is called with a question
callFinalizeQuestion ==
    /\ applied = << >>
    /\ \E question \in UnfinalizedQuestions :
          applied' = << [method |-> "finalizeQuestion",
                         arguments |-> << question >>,
                         value |-> finalizeQuestion(question)] >>
    /\ UNCHANGED << inside, extractionResults, extractedData, parsed >>
    /\ UNCHANGED concurrent

\* lines made of the first a positive keywords and the last b negative keywords
KeywordLines ==
    { Flatten(SubSeq(positiveKeywords, 1, a))
          \o Flatten(SubSeq(negativeKeywords, Len(negativeKeywords) - b + 1,
                            Len(negativeKeywords))) :
        a \in 0..3, b \in 0..3 }

\* detectAnswerFromKeywords is called with a line
callDetectAnswerFromKeywords ==
    /\ applied = << >>
    /\ \E line \in KeywordLines :
          applied' = << [method |-> "detectAnswerFromKeywords",
                         arguments |-> << line >>,
                         value |-> detectAnswerFromKeywords(line)] >>
    /\ UNCHANGED << inside, extractionResults, extractedData, parsed >>
    /\ UNCHANGED concurrent

\* question texts that end with a list of two entries, "1." and "2.", of a and
\* b characters
ChoiceTexts ==
    { Body22 \o << cNL, "1", ".", cSP >> \o Rep(cKA, a)
          \o << cNL, "2", ".", cSP >> \o Rep(cKA, b) :
        a \in {1, 4}, b \in {1, 4} }

\* extractChoices is called with a question text
callExtractChoices ==
    /\ applied = << >>
    /\ \E t \in ChoiceTexts :
          applied' = << [method |-> "extractChoices",
                         arguments |-> << t >>,
                         value |-> extractChoices(t)] >>
    /\ UNCHANGED << inside, extractionResults, extractedData, parsed >>
    /\ UNCHANGED concurrent

\* the string of the characters of seq, as a tuple
StringOf(seq) == SubSeq(seq, 1, Len(seq))

\* the section Tier 2 and Tier 3 are called with on their own
ScanSection == "KENRI"

\* the lines the emergency extraction is called with: three numbered lines, an
\* answer line and a line of text
EmergencyLineKinds ==
    { << "1", ".", cSP, cKA, cKA, cKA, cKA, cKA, cKA, cKA, cKA, cKA, cKA >>,
      << "2", ".", cSP, cKA, cKA, cKA, cKA, cKA, cKA, cKA, cKA, cKA, cKA >>,
      << "7", ".", cSP, cKA, cKA, cKA, cKA, cKA, cKA, cKA, cKA, cKA, cKA >>,
      << cKOTAE, cE, ":", cMARU >>,
      << cKA, cKA, cKA, cKA, cKA, cKA >> }

\* the most lines of such a call
MaxEmergencyLines == 3

\* the sequences of lines the emergency extraction is called with, as tuples
EmergencyTexts ==
    { StringOf(ls) : ls \in UNION { [1..n -> EmergencyLineKinds] : n \in 1..MaxEmergencyLines } }

\* emergencySimpleExtraction is called with the lines of a text
callEmergencySimpleExtraction ==
    /\ applied = << >>
    /\ \E ls \in EmergencyTexts :
          applied' = << [method |-> "emergencySimpleExtraction",
                         arguments |-> << ls >>,
                         value |-> emergencySimpleExtraction(ls, ScanSection)] >>
    /\ UNCHANGED << inside, extractionResults, extractedData, parsed >>
    /\ UNCHANGED concurrent

\* the largest confidence a question enters finalizeQuestion with, in points
MaxBaseConfidence == 130

\* the confidences a question enters the adjustment with
BaseConfidences == { k * CONF_UNIT : k \in 0..MaxBaseConfidence }

\* the steps of totalScore between 0 and 1
scoreSteps == 20

\* the values of totalScore: 0, 0.05, ..., 1
TotalScores == { (k * Q_UNIT) \div scoreSteps : k \in 0..scoreSteps }

\* adjustConfidenceByQuality is called with a confidence and a quality score
callAdjustConfidenceByQuality ==
    /\ applied = << >>
    /\ \E baseConfidence \in BaseConfidences, totalScore \in TotalScores :
          applied' = << [method |-> "adjustConfidenceByQuality",
                         arguments |-> << baseConfidence, totalScore >>,
                         value |-> adjustConfidenceByQuality(baseConfidence, totalScore)] >>
    /\ UNCHANGED << inside, extractionResults, extractedData, parsed >>
    /\ UNCHANGED concurrent

\* the characters of the texts the normalizer is called with
CleaningChars == { "U00B7", "U30FB", "UFFFD", "?", cISP, cSP, cNL, "UFF11", cKA }

\* the longest of these texts
MaxCleaningLen == 3

\* the texts the normalizer is called with
CleaningTexts == UNION { [1..n -> CleaningChars] : n \in 0..MaxCleaningLen }

\* TextCleaner.cleanJapaneseText is called with a text
callCleanJapaneseText ==
    /\ applied = << >>
    /\ \E t \in CleaningTexts :
          applied' = << [method |-> "cleanJapaneseText",
                         arguments |-> << StringOf(t) >>,
                         value |-> StringOf(cleanJapaneseText(StringOf(t)))] >>
    /\ UNCHANGED << inside, extractionResults, extractedData, parsed >>
    /\ UNCHANGED concurrent

\* the call is over
returnFromCall ==
    /\ applied # << >>
    /\ applied' = << >>
    /\ UNCHANGED << inside, extractionResults, extractedData, parsed >>
    /\ UNCHANGED concurrent

UnitNext ==
    \/ callDetectWithPattern
    \/ callDetectQuestionsAdaptive
    \/ callFinalizeQuestion
    \/ callDetectAnswerFromKeywords
    \/ callExtractChoices
    \/ callCleanJapaneseText
    \/ callEmergencySimpleExtraction
    \/ callAdjustConfidenceByQuality
    \/ returnFromCall

UnitSpec == Init /\ [][UnitNext]_vars

(***************************************************************************)
(* extractFromPDFs over a batch of files                                   *)
(***************************************************************************)
\* extractQuestions, the tiers: Tier 3 when Tier 1 and Tier 2 found nothing
Tier3OrFound(found, ls, section) ==
    IF NeedsFallback(found) THEN emergencySimpleExtraction(ls, section) ELSE found

\* Tier 2 when Tier 1 found nothing
Tier2OrFound(found, ls, section, thresholdValue) ==
    IF NeedsFallback(found)
    THEN Tier3OrFound(fallbackExtraction(ls, section, thresholdValue), ls, section)
    ELSE found

\* parseQuestions, from the questions of the tiers to the result
ResultOfFound(found, section, name, thresholdValue) ==
    SuccessResult(postProcessQuestions(setMetadata(found, section), thresholdValue),
                  collectPatterns(found, section), name, section)

\* parseQuestions, from the lines of the text to the result
ResultOfLines(ls, section, name, thresholdValue, now) ==
    ResultOfFound(Tier2OrFound(detectQuestionsAdaptive(Join(ls, << cNL >>), now),
                               ls, section, thresholdValue),
                  section, name, thresholdValue)

ResultOfCleaned(cleaned, name, thresholdValue, now) ==
    ResultOfLines(preprocessText(cleaned), detectSection(cleaned, name), name,
                  thresholdValue, now)

\* parseQuestions(t, name, options) for a text and a file name that are strings,
\* as one step; thresholdValue is the value of the slider during the call
parseQuestionsOf(t, name, thresholdValue, now) ==
    ResultOfCleaned(cleanJapaneseText(t), name, thresholdValue, now)

\* the most files in a batch
MaxFiles == 3

\* the texts PDFExtractor recovers from the files of a batch
BatchTexts ==
    { << "1", "0", "1", cSP >> \o Body22,
      << cMON, "1", cSP >> \o Body22,
      << cKA, cKA >> }

\* the entries of extractFromMultipleFiles: a file whose text was recovered, or
\* the error result of a file whose extraction threw
BatchEntries ==
    { [name |-> f, success |-> TRUE, cleanedText |-> t] : f \in FileNames, t \in BatchTexts }
        \cup { [name |-> f, success |-> FALSE, cleanedText |-> << >>] : f \in FileNames }

\* the batches: 1..MaxFiles entries
Batches == UNION { [1..n -> BatchEntries] : n \in 1..MaxFiles }

\* PDFExtractor.extractFromMultipleFiles returns one entry per file, in the order
\* of the files, the files that failed included
extractFromMultipleFiles ==
    /\ pc = "extracting"
    /\ \E batch \in Batches : extractionResults' = batch
    /\ pc' = "parsing"
    /\ UNCHANGED << sliderValue, options, text, fileName, cleanedText, lines, detectedSection,
                    attempts, tiersRun, questions, patterns, processedQuestions, error, result >>
    /\ UNCHANGED << extractedData, parsed, applied >>
    /\ UNCHANGED concurrent

\* an assignment in the place of the push
replaceQuestions(data, parsingResult) == parsingResult.questions

\* state.extractedData.push(...parsingResult.questions)
pushQuestions(data, parsingResult) == data \o parsingResult.questions

\* the file the loop is at was extracted and has text
HeadParses ==
    /\ extractionResults[1].success
    /\ extractionResults[1].cleanedText # << >>

\* what the file contributed, for the history
Contribution(entry, parsingResult) ==
    [name |-> entry.name, success |-> "error" \notin DOMAIN parsingResult.metadata,
     questions |-> parsingResult.questions]

\* the loop body for a file that was extracted: parseQuestions, then the push
FileParsed(entry, parsingResult) ==
    /\ extractedData' = pushQuestions(extractedData, parsingResult)
    /\ parsed' = Append(parsed, Contribution(entry, parsingResult))

parseFile ==
    /\ pc = "parsing"
    /\ extractionResults # << >>
    /\ HeadParses
    /\ \E now \in Instants :
          FileParsed(extractionResults[1],
                     parseQuestionsOf(extractionResults[1].cleanedText,
                                      extractionResults[1].name, sliderValue, now))
    /\ extractionResults' = Tail(extractionResults)
    /\ UNCHANGED << pc, sliderValue, options, text, fileName, cleanedText, lines,
                    detectedSection, attempts, tiersRun, questions, patterns,
                    processedQuestions, error, result, applied >>
    /\ UNCHANGED concurrent

\* the loop body for a file whose extraction failed or gave no text
skipFile ==
    /\ pc = "parsing"
    /\ extractionResults # << >>
    /\ ~HeadParses
    /\ parsed' = Append(parsed, [name |-> extractionResults[1].name, success |-> FALSE,
                                 questions |-> << >>])
    /\ extractionResults' = Tail(extractionResults)
    /\ UNCHANGED << pc, sliderValue, options, text, fileName, cleanedText, lines,
                    detectedSection, attempts, tiersRun, questions, patterns,
                    processedQuestions, error, result, extractedData, applied >>
    /\ UNCHANGED concurrent

\* the loop is over: extractFromPDFs ends
batchDone ==
    /\ pc = "parsing"
    /\ extractionResults = << >>
    /\ pc' = "idle"
    /\ options' = NULL
    /\ UNCHANGED << sliderValue, text, fileName, cleanedText, lines, detectedSection,
                    attempts, tiersRun, questions, patterns, processedQuestions, error, result >>
    /\ UNCHANGED outside
    /\ UNCHANGED concurrent

BatchNext ==
    \/ SliderInput
    \/ extractFromPDFs
    \/ extractFromMultipleFiles
    \/ parseFile
    \/ skipFile
    \/ batchDone

BatchSpec == Init /\ [][BatchNext]_vars

(***************************************************************************)
(* extractAllPages: the pages of one document                              *)
(***************************************************************************)
\* the most pages in a document
MaxPages == 10

\* the values of navigator.hardwareConcurrency; 0 stands for undefined
HardwareThreads == {0, 1, 2, 4}

\* Math.min(3, ...) of extractAllPages
maxPageConcurrency == 3

\* navigator.hardwareConcurrency || 2
defaultConcurrency == 2

\* const concurrency = Math.min(3, navigator.hardwareConcurrency || 2)
pageConcurrency(hc) == Min(maxPageConcurrency, IF hc = 0 THEN defaultConcurrency ELSE hc)

\* Math.ceil(a / b) for a >= 0 and b > 0
CeilDiv(a, b) == (a + b - 1) \div b

\* Utils.chunkArray(array, size): slices of size elements, the last one shorter
RECURSIVE chunkArray(_, _)
chunkArray(array, size) ==
    IF Len(array) = 0 THEN << >>
    ELSE << SubSeq(array, 1, Min(size, Len(array))) >>
             \o chunkArray(SubSeq(array, size + 1, Len(array)), size)

\* Array.from({length: pagesToProcess}, (_, i) => i + 1)
PageNumbers(pagesToProcess) == [i \in 1..pagesToProcess |-> i]

\* the chunks of extractAllPages: chunks of ceil(pagesToProcess / concurrency) pages
PageChunksOf(pagesToProcess, hc) ==
    chunkArray(PageNumbers(pagesToProcess), CeilDiv(pagesToProcess, pageConcurrency(hc)))

\* the elements of a sequence
Elements(seq) == { seq[i] : i \in 1..Len(seq) }

\* the pages whose extractSinglePage was called and whose promise has not settled
pagesInFlight ==
    IF pagePc = "await"
    THEN Elements(pageChunks[1]) \ { s.page : s \in pageSettled }
    ELSE {}

\* extractAllPages(pdf, ...) is called on a document of numPages pages
extractAllPages ==
    /\ pagePc = "idle"
    /\ \E numPages \in 0..MaxPages, hc \in HardwareThreads :
          /\ hardwareConcurrency' = hc
          /\ pageChunks' = PageChunksOf(numPages, hc)
    /\ pageSettled' = {}
    /\ pageTexts' = << >>
    /\ pagePc' = "loop"
    /\ UNCHANGED << inside, outside, fileVars, runVars, scanVars >>

\* chunk.map(pageNum => this.extractSinglePage(...)): every page of the chunk is
\* started, then Promise.all is awaited
startPageChunk ==
    /\ pagePc = "loop"
    /\ pageChunks # << >>
    /\ pageSettled' = {}
    /\ pagePc' = "await"
    /\ UNCHANGED << hardwareConcurrency, pageChunks, pageTexts >>
    /\ UNCHANGED << inside, outside, fileVars, runVars, scanVars >>

\* extractSinglePage resolves, with success or with the result of its catch block
pageSettles ==
    /\ pagePc = "await"
    /\ \E pageNum \in pagesInFlight, success \in BOOLEAN :
          pageSettled' = pageSettled \cup { [page |-> pageNum, success |-> success] }
    /\ UNCHANGED << pagePc, hardwareConcurrency, pageChunks, pageTexts >>
    /\ UNCHANGED << inside, outside, fileVars, runVars, scanVars >>

\* whether the promise of the page resolved with success
PageSucceeded(pageNum) == [page |-> pageNum, success |-> TRUE] \in pageSettled

\* Promise.all resolved: the results of the chunk are stored, in the order of
\* the pages
collectPageChunk ==
    /\ pagePc = "await"
    /\ pagesInFlight = {}
    /\ pageTexts' = pageTexts \o [i \in 1..Len(pageChunks[1]) |-> PageSucceeded(pageChunks[1][i])]
    /\ pageChunks' = Tail(pageChunks)
    /\ pageSettled' = {}
    /\ pagePc' = "loop"
    /\ UNCHANGED hardwareConcurrency
    /\ UNCHANGED << inside, outside, fileVars, runVars, scanVars >>

\* the loop is over: extractAllPages returns and its variables are gone
returnPages ==
    /\ pagePc = "loop"
    /\ pageChunks = << >>
    /\ pagePc' = "idle"
    /\ pageTexts' = << >>
    /\ UNCHANGED << hardwareConcurrency, pageChunks, pageSettled >>
    /\ UNCHANGED << inside, outside, fileVars, runVars, scanVars >>

PageNext ==
    \/ extractAllPages
    \/ startPageChunk
    \/ pageSettles
    \/ collectPageChunk
    \/ returnPages

PageSpec == Init /\ [][PageNext]_vars

(***************************************************************************)
(* The triggers of extractFromPDFs and the runs they start                 *)
(***************************************************************************)
\* the files the user uploads at most, and the runs started at most
MaxUploaded == 2

MaxRuns == 3

\* updateButtonStates: the state of the extract button
extractBtnState(hasFiles, processing) == (hasFiles = 0) \/ processing

\* the runs that are awaiting extractFromMultipleFiles
RunsInProgress == { i \in 1..Len(runs) : runs[i].pc = "extracting" }

\* addFiles pushes a file and updates the buttons
addFiles ==
    /\ uploadedFiles < MaxUploaded
    /\ uploadedFiles' = uploadedFiles + 1
    /\ extractBtnDisabled' = extractBtnState(uploadedFiles', isProcessing)
    /\ UNCHANGED << isProcessing, runs >>
    /\ UNCHANGED << inside, outside, pageVars, fileVars, scanVars >>

\* removeFile filters a file out and updates the buttons
removeFile ==
    /\ uploadedFiles > 0
    /\ uploadedFiles' = uploadedFiles - 1
    /\ extractBtnDisabled' = extractBtnState(uploadedFiles', isProcessing)
    /\ UNCHANGED << isProcessing, runs >>
    /\ UNCHANGED << inside, outside, pageVars, fileVars, scanVars >>

\* extractFromPDFs past its test on the files and up to its await: the flag is
\* raised, the data reset, the buttons updated, and the files of the call are
\* taken from the state
StartRun ==
    /\ Len(runs) < MaxRuns
    /\ isProcessing' = TRUE
    /\ extractedData' = << >>
    /\ extractBtnDisabled' = extractBtnState(uploadedFiles, TRUE)
    /\ runs' = Append(runs, [pc |-> "extracting", files |-> uploadedFiles])
    /\ UNCHANGED << uploadedFiles, extractionResults, parsed, applied >>
    /\ UNCHANGED << inside, pageVars, fileVars, scanVars >>

\* app.extractFromPDFs() returns at once without files; it has no other test
callExtractFromPDFs ==
    /\ uploadedFiles > 0
    /\ StartRun

\* the extract button calls extractFromPDFs when it is enabled
clickExtractBtn ==
    /\ ~extractBtnDisabled
    /\ callExtractFromPDFs

\* Ctrl/Cmd+R calls extractFromPDFs when files are there and no run is flagged
pressCtrlR ==
    /\ uploadedFiles > 0
    /\ ~isProcessing
    /\ callExtractFromPDFs

\* the questions of the files of a run that were parsed
RunQuestions(i, parsedFiles) == [k \in 1..parsedFiles |-> [run |-> i, file |-> k]]

\* extractFromMultipleFiles resolves: the loop over the files appends the
\* questions of the files that were parsed, then the finally block lowers the
\* flag and updates the buttons
runCompletes ==
    \E i \in RunsInProgress, parsedFiles \in 0..MaxUploaded :
        /\ parsedFiles <= runs[i].files
        /\ extractedData' = extractedData \o RunQuestions(i, parsedFiles)
        /\ isProcessing' = FALSE
        /\ extractBtnDisabled' = extractBtnState(uploadedFiles, FALSE)
        /\ runs' = [runs EXCEPT ![i].pc = "completed"]
        /\ UNCHANGED << uploadedFiles, extractionResults, parsed, applied >>
        /\ UNCHANGED << inside, pageVars, fileVars, scanVars >>

\* extractFromMultipleFiles rejects: the catch block reports, then the finally
\* block lowers the flag and updates the buttons
runFails ==
    \E i \in RunsInProgress :
        /\ isProcessing' = FALSE
        /\ extractBtnDisabled' = extractBtnState(uploadedFiles, FALSE)
        /\ runs' = [runs EXCEPT ![i].pc = "failed"]
        /\ UNCHANGED << uploadedFiles, outside >>
        /\ UNCHANGED << inside, pageVars, fileVars, scanVars >>

RunNext ==
    \/ addFiles
    \/ removeFile
    \/ clickExtractBtn
    \/ pressCtrlR
    \/ callExtractFromPDFs
    \/ runCompletes
    \/ runFails

RunSpec == Init /\ [][RunNext]_vars

(***************************************************************************)
(* extractFromMultipleFiles, promise by promise                            *)
(***************************************************************************)
\* CONFIG.UI.maxConcurrentFiles
maxConcurrentFiles == 3

\* the File objects of a call at most
MaxFileList == 4

FileObjects == 1..MaxFileList

\* the lists a call is made with: uploadedFiles.map(f => f.file), where
\* addFiles pushed the File objects of a FileList, each of them once
FileLists ==
    { f \in UNION { [1..n -> FileObjects] : n \in 0..MaxFileList } :
        \A i, j \in 1..Len(f) : f[i] = f[j] => i = j }

\* array.indexOf(x)
indexOf(array, x) ==
    IF \E i \in 1..Len(array) : array[i] = x
    THEN (CHOOSE i \in 1..Len(array) :
              array[i] = x /\ \A j \in 1..(i - 1) : array[j] # x) - 1
    ELSE -1

\* what extractFromFile resolves with: it catches its own errors
FileResult(succeeded) == [success |-> succeeded]

\* the argument of progressCallback counts the files by the place of the file
reportPlace(completed, file, fileResult) ==
    [completed |-> indexOf(files, file) + 1, total |-> Len(files),
     currentFile |-> file, result |-> fileResult]

\* the argument of progressCallback
progressArgument(completed, file, fileResult) ==
    [completed |-> completed, total |-> Len(files),
     currentFile |-> file, result |-> fileResult]

\* what the promise of a file resolves with
FileEntry(file, fileResult) ==
    [file |-> file, result |-> fileResult, index |-> indexOf(files, file)]

\* a sorted array with an item put after the items that do not compare greater
InsertByIndex(sorted, item) ==
    SubSeq(sorted, 1, Cardinality({ i \in 1..Len(sorted) : sorted[i].index <= item.index }))
        \o << item >>
        \o SubSeq(sorted, Cardinality({ i \in 1..Len(sorted) : sorted[i].index <= item.index }) + 1,
                  Len(sorted))

\* results.sort((a, b) => a.index - b.index): the sort is stable
RECURSIVE sortByIndex(_)
sortByIndex(array) ==
    IF Len(array) = 0 THEN << >>
    ELSE InsertByIndex(sortByIndex(SubSeq(array, 1, Len(array) - 1)), array[Len(array)])

\* results.map(item => ({file, result}))
WithoutIndex(array) ==
    [i \in 1..Len(array) |-> [file |-> array[i].file, result |-> array[i].result]]

\* the places of the chunk awaited whose promise has settled
PlacesSettled == { e.place : e \in fileSettled }

\* what Promise.all resolves with: the entries in the order of the promises
AllSettled(chunk) ==
    [place \in 1..Len(chunk) |-> (CHOOSE e \in fileSettled : e.place = place).entry]

\* extractFromMultipleFiles is called: the files are cut into chunks
callExtractFromMultipleFiles ==
    /\ filePc \in {"idle", "returned"}
    /\ \E f \in FileLists :
          /\ files' = f
          /\ fileChunks' = chunkArray(f, maxConcurrentFiles)
    /\ fileResults' = << >>
    /\ completedFiles' = 0
    /\ progressCalls' = << >>
    /\ fileSettled' = {}
    /\ returned' = << >>
    /\ filePc' = "loop"
    /\ UNCHANGED << inside, outside, pageVars, runVars, scanVars >>

\* chunk.map starts the extraction of every file of the chunk, then
\* Promise.all is awaited
startFileChunk ==
    /\ filePc = "loop"
    /\ fileChunks # << >>
    /\ filePc' = "await"
    /\ fileSettled' = {}
    /\ UNCHANGED << files, fileChunks, fileResults, completedFiles, progressCalls, returned >>
    /\ UNCHANGED << inside, outside, pageVars, runVars, scanVars >>

\* extractFromFile of a file of the chunk resolves, with a success or with a
\* failure: the file is counted, the callback is called, the promise settles
fileSettles ==
    /\ filePc = "await"
    /\ \E place \in 1..Len(fileChunks[1]), succeeded \in BOOLEAN :
          /\ place \notin PlacesSettled
          /\ completedFiles' = completedFiles + 1
          /\ progressCalls' = Append(progressCalls,
                 progressArgument(completedFiles', fileChunks[1][place], FileResult(succeeded)))
          /\ fileSettled' = fileSettled \cup
                 { [place |-> place,
                    entry |-> FileEntry(fileChunks[1][place], FileResult(succeeded))] }
    /\ UNCHANGED << filePc, files, fileChunks, fileResults, returned >>
    /\ UNCHANGED << inside, outside, pageVars, runVars, scanVars >>

\* Promise.all resolves: the entries of the chunk are pushed, and the loop
\* goes on after the sleep between two chunks
collectFileChunk ==
    /\ filePc = "await"
    /\ PlacesSettled = 1..Len(fileChunks[1])
    /\ fileResults' = fileResults \o AllSettled(fileChunks[1])
    /\ fileChunks' = Tail(fileChunks)
    /\ fileSettled' = {}
    /\ filePc' = "loop"
    /\ UNCHANGED << files, completedFiles, progressCalls, returned >>
    /\ UNCHANGED << inside, outside, pageVars, runVars, scanVars >>

\* the loop is over: the results are sorted by index and returned
returnFiles ==
    /\ filePc = "loop"
    /\ fileChunks = << >>
    /\ returned' = WithoutIndex(sortByIndex(fileResults))
    /\ filePc' = "returned"
    /\ UNCHANGED << files, fileChunks, fileSettled, fileResults, completedFiles, progressCalls >>
    /\ UNCHANGED << inside, outside, pageVars, runVars, scanVars >>

FileNext ==
    \/ callExtractFromMultipleFiles
    \/ startFileChunk
    \/ fileSettles
    \/ collectFileChunk
    \/ returnFiles

FileSpec == Init /\ [][FileNext]_vars

(***************************************************************************)
(* fallbackExtraction, line by line                                        *)
(***************************************************************************)
\* the lines the scan is run on: a numbering line with a body of six
\* characters, one with a body of two, a line of text, an answer line and an
\* explanation line
ScanLineKinds ==
    { << cMON, "1", cSP, cKA, cKA, cKA, cKA, cKA, cKA >>,
      << cMON, "2", cSP, cKA, cKA >>,
      << cKA, cKA, cKA, cKA >>,
      << cKOTAE, cE, ":", cMARU >>,
      << cKAI, cSETSU, ":", cKA, cKA, cKA >> }

\* the most lines of a scan
MaxScanLines == 4

\* the sequences of lines the scan is run on, as tuples
ScanTexts == { StringOf(ls) : ls \in UNION { [1..n -> ScanLineKinds] : n \in 1..MaxScanLines } }

\* fallbackExtraction(lines, section, fileName, options) is called
callFallbackExtraction ==
    /\ scanPc = "idle"
    /\ \E ls \in ScanTexts : scanLines' = ls
    /\ lineIndex' = 0
    /\ currentQuestion' = << >>
    /\ scanQuestions' = << >>
    /\ scanPc' = "loop"
    /\ UNCHANGED << inside, outside, pageVars, fileVars, runVars >>

\* the line the loop is at
ScanLine == scanLines[lineIndex + 1]

\* one iteration of the while loop
scanLine ==
    /\ scanPc = "loop"
    /\ lineIndex < Len(scanLines)
    /\ currentQuestion' = LineCurrent(currentQuestion, ScanLine, ScanSection,
                                      detectQuestionNumber(ScanLine),
                                      detectAnswer(ScanLine),
                                      detectExplanation(ScanLine))
    /\ scanQuestions' = LineQuestions(scanQuestions, currentQuestion, sliderValue,
                                      detectQuestionNumber(ScanLine))
    /\ lineIndex' = lineIndex + 1
    /\ UNCHANGED << scanPc, scanLines >>
    /\ UNCHANGED << inside, outside, pageVars, fileVars, runVars >>

\* the loop is over: the last question is saved and the questions are returned
scanEnd ==
    /\ scanPc = "loop"
    /\ lineIndex = Len(scanLines)
    /\ scanQuestions' = CloseQuestion(scanQuestions, currentQuestion, sliderValue)
    /\ scanPc' = "returned"
    /\ UNCHANGED << scanLines, lineIndex, currentQuestion >>
    /\ UNCHANGED << inside, outside, pageVars, fileVars, runVars >>

\* the caller has the questions; the variables of the call are gone
scanReturn ==
    /\ scanPc = "returned"
    /\ scanPc' = "idle"
    /\ scanLines' = << >>
    /\ lineIndex' = 0
    /\ currentQuestion' = << >>
    /\ scanQuestions' = << >>
    /\ UNCHANGED << inside, outside, pageVars, fileVars, runVars >>

\* the slider is moved between two calls
scanSliderInput ==
    /\ scanPc = "idle"
    /\ \E v \in SliderValues : sliderValue' = v
    /\ UNCHANGED << pc, options, text, fileName, cleanedText, lines, detectedSection,
                    attempts, tiersRun, questions, patterns, processedQuestions, error, result >>
    /\ UNCHANGED << outside, concurrent >>

ScanNext ==
    \/ scanSliderInput
    \/ callFallbackExtraction
    \/ scanLine
    \/ scanEnd
    \/ scanReturn

ScanSpec == Init /\ [][ScanNext]_vars

\* the loop run line by line returns what fallbackExtraction returns
ScanAgrees ==
    scanPc = "returned" => scanQuestions = fallbackExtraction(scanLines, ScanSection, sliderValue)

(***************************************************************************)
(* The properties of the specification                                      *)
(***************************************************************************)
\* parseQuestions has returned
Returned == pc = "done"

\* the candidates postProcessQuestions keeps before it removes duplicates
Candidates ==
    FilterSeq(LAMBDA q : isValidQuestion(q, sliderValue), MapSeq(finalizeQuestion, questions))

\* every question kept is the first candidate of its key
KeptAreFirst(kept, candidates) ==
    \A i \in 1..Len(kept) :
        \E k \in 1..Len(candidates) :
            /\ candidates[k] = kept[i]
            /\ \A l \in 1..(k - 1) : DuplicateKey(candidates[l]) # DuplicateKey(kept[i])

ConfidenceInRange(q) == q.confidence >= 0 /\ q.confidence <= 95 * CONF_UNIT

\* C1: parseQuestions never throws: an exception raised inside it is caught, and
\* what it returns has exactly the fields questions, patterns, statistics and
\* metadata; after an exception questions is empty and metadata.error is the
\* message of the exception
C1_ResultWellFormed ==
    /\ error # NULL => pc \in {"catch", "done"}
    /\ Returned =>
          /\ DOMAIN result = {"questions", "patterns", "statistics", "metadata"}
          /\ error # NULL =>
                /\ result.questions = << >>
                /\ result.metadata.error = error

\* parseQuestions has returned after fileName.toLowerCase() threw on a null name
C1_Witness ==
    /\ Returned
    /\ text # NULL
    /\ error = msgFileNameNull
    /\ result.questions = << >>

\* C2: every finalized question, and so every question of the output, has a
\* confidence between 0 and 95
C2_ConfidenceBounded ==
    /\ \A i \in 1..Len(questions) :
          questions[i].finalized > 0 => ConfidenceInRange(questions[i])
    /\ \A i \in 1..Len(processedQuestions) : ConfidenceInRange(processedQuestions[i])

\* a question of Tier 2 that fallbackExtraction finalized with a confidence of
\* exactly 95, the bound of the clamp
C2_Witness ==
    /\ pc = "metadata"
    /\ \E i \in 1..Len(questions) :
          /\ questions[i].tier = 2
          /\ questions[i].finalized = 1
          /\ questions[i].confidence = 95 * CONF_UNIT

\* C3: the answer of a question is maru, batsu or null before finalization and
\* maru or batsu after it
C3_AnswerNormalized ==
    /\ \A i \in 1..Len(questions) :
          questions[i].answer \in
              (IF questions[i].finalized > 0 THEN {cMARU, cBATSU} ELSE {cMARU, cBATSU, NULL})
    /\ \A i \in 1..Len(processedQuestions) :
          processedQuestions[i].answer \in {cMARU, cBATSU}

\* C4: no two questions of the output share the key (questionNumber, first 50
\* characters of the cleaned body), and the question kept for a key is the first
\* candidate of that key in processing order
C4_NoDuplicateKeys ==
    (Returned /\ error = NULL) =>
        /\ \A i, j \in 1..Len(result.questions) :
              i # j => DuplicateKey(result.questions[i]) # DuplicateKey(result.questions[j])
        /\ KeptAreFirst(result.questions, Candidates)

\* a run in which a later candidate of a key was dropped
C4_Witness ==
    /\ Returned
    /\ error = NULL
    /\ Len(result.questions) >= 1
    /\ Len(result.questions) < Len(Candidates)

\* C5: the questions of the output are in non-decreasing order of questionNumber
C5_SortedByNumber ==
    \A i, j \in 1..Len(processedQuestions) :
        i < j => processedQuestions[i].questionNumber <= processedQuestions[j].questionNumber

\* an output of two questions that were detected in decreasing order
C5_Witness ==
    /\ Returned
    /\ error = NULL
    /\ Len(result.questions) >= 2
    /\ \E i, j \in 1..Len(questions) :
          /\ i < j
          /\ questions[i].questionNumber > questions[j].questionNumber
          /\ \E k, l \in 1..Len(result.questions) :
                /\ k < l
                /\ result.questions[k].questionNumber = questions[j].questionNumber
                /\ result.questions[l].questionNumber = questions[i].questionNumber

\* C6: the tiers run in the order 1, 2, 3, a tier runs only after every tier
\* before it found nothing, and the questions handed to post-processing all come
\* from the last tier that ran
C6_TiersInOrder ==
    /\ \A i \in 1..Len(tiersRun) : tiersRun[i].tier = i
    /\ \A i \in 1..(Len(tiersRun) - 1) : tiersRun[i].found = 0
    /\ pc \in {"metadata", "post"} =>
          /\ Len(tiersRun) >= 1
          /\ Len(questions) = tiersRun[Len(tiersRun)].found
          /\ \A i \in 1..Len(questions) : questions[i].tier = Len(tiersRun)

\* post-processing is about to receive questions that Tier 3 found after Tier 1
\* and Tier 2 found none
C6_Witness ==
    /\ pc = "post"
    /\ Len(tiersRun) = 3
    /\ tiersRun[3].found > 0
    /\ \E i \in 1..Len(questions) : questions[i].tier = 3

\* C7: finalizeQuestion is applied at most once to each question
C7_FinalizedOnce ==
    /\ \A i \in 1..Len(questions) : questions[i].finalized <= 1
    /\ \A i \in 1..Len(processedQuestions) : processedQuestions[i].finalized <= 1

\* C8: every question of the result has a cleaned body of at least the minimum
\* length, a number within 1..99999 and a confidence not below
\* options.confidenceThreshold
C8_OutputMeetsOptions ==
    (Returned /\ error = NULL) =>
        \A i \in 1..Len(result.questions) :
            /\ Len(result.questions[i].question) >= minQuestionLength
            /\ result.questions[i].questionNumber >= questionNumberMin
            /\ result.questions[i].questionNumber <= questionNumberMax
            /\ result.questions[i].confidence >= options.confidenceThreshold * CONF_UNIT

\* C9: a question of Tier 2 or Tier 3 whose final confidence is at least
\* min(threshold, 50), and which meets the length and number bounds, is in the
\* output
C9_FallbackThreshold ==
    pc = "stats" =>
        \A i \in 1..Len(questions) :
            (/\ questions[i].tier \in {2, 3}
             /\ isValidQuestion(finalizeQuestion(questions[i]),
                                Min(sliderValue, relaxedMaxThreshold)))
            => \E j \in 1..Len(processedQuestions) :
                   DuplicateKey(processedQuestions[j])
                       = DuplicateKey(finalizeQuestion(questions[i]))

\* C10: no question of a pattern attempt of the detector has a number outside
\* 1..questionNumberMax
C10_AttemptNumbersInRange ==
    \A p \in 1..Len(attempts) :
        \A i \in 1..Len(attempts[p].questions) :
            /\ attempts[p].questions[i].questionNumber >= questionNumberMin
            /\ attempts[p].questions[i].questionNumber <= questionNumberMax

\* Math.log(n + 1) in thousandths, n the number of questions of an attempt
LnMilli(n) == << 0, 693, 1099, 1386, 1609, 1792, 1946, 2079, 2197 >>[Min(n, 8) + 1]

\* the first selectBestPattern's score, confidence * coverage *
\* Math.log(questions.length + 1), of a result of the detectWithPattern in force:
\* its numerator over totalMatches * textLength
ProductNum(r) == (100 * r.validQuestions) * (50 * r.totalMatches) * LnMilli(Len(r.questions))

\* the product score of a is greater than that of b
ProductGreater(a, b) ==
    ProductNum(a) * (b.totalMatches * b.textLength)
        > ProductNum(b) * (a.totalMatches * a.textLength)

\* the attempts that yielded at least one question
Yielding == { p \in 1..Len(attempts) : Len(attempts[p].questions) > 0 }

\* Tier 1 has just run and no other tier has
AfterTier1 == Len(tiersRun) = 1 /\ pc \in {"tier2", "metadata"}

\* attempt p has the greatest product score of the yielding attempts, and is the
\* earliest of those that have it
IsProductBest(p, yielding) ==
    \A q \in yielding :
        /\ ~ProductGreater(attempts[q], attempts[p])
        /\ q < p => ProductGreater(attempts[p], attempts[q])

SelectedPattern(bestPattern) == IF bestPattern # << >> THEN bestPattern[1].pattern ELSE 0

\* the pattern detectQuestionsAdaptive selects among its attempts
PatternOfBest(results) ==
    SelectedPattern(selectBestPattern(FilterSeq(LAMBDA r : Len(r.questions) > 0, results)))

\* questions with metadata.extractedAt left out
WithoutExtractedAt(found) ==
    [i \in 1..Len(found) |-> [found[i] EXCEPT !.extractedAt = << >>]]

\* a run of the detector on the text of this run at the first instant
ReferenceAttempts == detectionAttempts(Join(lines, << cNL >>), 0)

\* this run and the reference run select the same pattern and return the same
\* questions, field for field
IdenticalRuns(found, results, reference) ==
    /\ PatternOfBest(results) = PatternOfBest(reference)
    /\ found = QuestionsOfBest(reference)

\* this run and the reference run select the same pattern and return questions
\* that differ in metadata.extractedAt at most
IdenticalButExtractedAt(found, results, reference) ==
    /\ PatternOfBest(results) = PatternOfBest(reference)
    /\ WithoutExtractedAt(found) = WithoutExtractedAt(QuestionsOfBest(reference))

MatchCount(p, t) == Len(MatchAll(p, t, PatternMultiline(p), TRUE))

\* the p-th attempt is that of the p-th pattern of the catalog, on the whole text
IsAttemptOf(attempt, p, t) ==
    /\ attempt.pattern = p
    /\ attempt.textLength = Len(t)
    /\ attempt.totalMatches = MatchCount(p, t)

CallsOf(method) == { i \in 1..Len(applied) : applied[i].method = method }

\* C14: one attempt of a pattern never consumes more than matchCap matches
C14_MatchesCapped ==
    \A i \in CallsOf("detectWithPattern") : applied[i].value.totalMatches <= matchCap

\* the question has its answer, maru or batsu, and the confidence of an
\* answer-anchored attempt
IsAnchored(question) ==
    /\ question.answer \in {cMARU, cBATSU}
    /\ question.confidence = 95 * CONF_UNIT

\* C15: every question the detector produces from a text in the answer-anchored
\* format has its answer set from the inline mark, maru or batsu, and the
\* confidence 95
C15_AnchoredAnswerSet ==
    \A i \in CallsOf("detectQuestionsAdaptive") :
        \A k \in 1..Len(applied[i].value) : IsAnchored(applied[i].value[k])

\* the keyword evidence guessAnswerFromQuestion weighs: the occurrences of the
\* positive keywords and the question form, those of the negative keywords and
\* the negation
PositiveEvidence(body) ==
    keywordCount(body, positiveKeywords)
        + (IF Includes(body, kwKaMaru) \/ Includes(body, kwDeshouka) \/ Includes(body, kwDesuka)
           THEN 1 ELSE 0)

NegativeEvidence(body) ==
    keywordCount(body, negativeKeywords)
        + (IF Includes(body, kwNai) \/ Includes(body, kwDenai) \/ Includes(body, kwDehanai)
           THEN 1 ELSE 0)

\* the confidence finalizeQuestion leaves, from the confidence it scores
ConfidenceFrom(base, final) ==
    final.confidence
        = clamp(adjustConfidenceByQuality(base, final.qualityScore), 0, maxThreshold * CONF_UNIT)

\* the question came without an answer: the answer is guessed, batsu on a tie or
\* an empty body, 20 points are taken off and the guess is flagged
GuessedAsStated(question, final) ==
    /\ final.answer \in {cMARU, cBATSU}
    /\ (\/ question.question = << >>
        \/ PositiveEvidence(question.question) = NegativeEvidence(question.question))
          => final.answer = cBATSU
    /\ ConfidenceFrom(question.confidence - 20 * CONF_UNIT, final)
    /\ final.answerGuessed

\* the question came with an answer: the answer is kept, nothing is taken off
\* and the flag is left as it was
KeptAsStated(question, final) ==
    /\ final.answer = question.answer
    /\ ConfidenceFrom(question.confidence, final)
    /\ final.answerGuessed = question.answerGuessed

\* C16: finalizeQuestion guesses the answer, takes exactly 20 off the confidence
\* and sets answerGuessed exactly when the question comes without an answer, the
\* guess being batsu on a tie or an empty body; a question that comes with an
\* answer keeps it, loses nothing and is not flagged
C16_GuessExactlyWhenNoAnswer ==
    \A i \in CallsOf("finalizeQuestion") :
        IF applied[i].arguments[1].answer = NULL
        THEN GuessedAsStated(applied[i].arguments[1], applied[i].value)
        ELSE KeptAsStated(applied[i].arguments[1], applied[i].value)

\* a question without an answer whose body has one positive and one negative
\* keyword was finalized: batsu, flagged
C16_Witness ==
    \E i \in CallsOf("finalizeQuestion") :
        /\ applied[i].arguments[1].answer = NULL
        /\ PositiveEvidence(applied[i].arguments[1].question) = 1
        /\ NegativeEvidence(applied[i].arguments[1].question) = 1
        /\ applied[i].value.answer = cBATSU
        /\ applied[i].value.answerGuessed

\* the answer of a result of detectAnswerFromKeywords, NULL when it returned null
InferredOrNull(value) == IF value = << >> THEN NULL ELSE value[1].answer

\* the answer a margin of two keywords gives: maru when the positive keywords
\* lead by two or more, batsu when the negative ones do, NULL otherwise
MarginAnswer(positiveScore, negativeScore) ==
    IF positiveScore - negativeScore >= 2 THEN cMARU
    ELSE IF negativeScore - positiveScore >= 2 THEN cBATSU
    ELSE NULL

\* C17: detectAnswerFromKeywords returns maru exactly when the positive keywords
\* of the line outnumber the negative ones by at least two, batsu exactly when
\* the negative ones outnumber the positive ones by at least two, null otherwise
C17_KeywordMargin ==
    \A i \in CallsOf("detectAnswerFromKeywords") :
        InferredOrNull(applied[i].value)
            = MarginAnswer(keywordPresence(applied[i].arguments[1], positiveKeywords),
                           keywordPresence(applied[i].arguments[1], negativeKeywords))

\* C18: the choices of a question come from the first enumeration style that
\* yields at least two entries, so that the list of choices of a question is
\* empty or has at least two entries, never exactly one
C18_NeverOneChoice ==
    \A i \in CallsOf("extractChoices") : Len(applied[i].value) # 1

\* the number of a match, when it is one the mean is taken over
SectionNumber(match) ==
    IF ParseInt(match.num) > 0 /\ ParseInt(match.num) < 1000
    THEN << ParseInt(match.num) >>
    ELSE << >>

SectionNumbers(matches) == Flatten([k \in 1..Len(matches) |-> SectionNumber(matches[k])])

\* the question numbers the patterns of the catalog find in the text, each
\* pattern with the flags g and m
CatalogNumbers(t) ==
    Flatten([p \in 1..NumPatterns |-> SectionNumbers(MatchAll(p, t, TRUE, FALSE))])

\* the mean of the numbers lies in the question range of the section
MeanInRange(numbers, key) ==
    /\ SumSeq(numbers) >= questionRange(key)[1] * Len(numbers)
    /\ SumSeq(numbers) <= questionRange(key)[2] * Len(numbers)

\* the section whose range holds the mean of the numbers
MeanSection(numbers) ==
    IF numbers = << >> \/ \A n \in 1..Len(SectionKeys) : ~MeanInRange(numbers, SectionKeys[n])
    THEN SectionOther
    ELSE SectionKeys[Least({n \in 1..Len(SectionKeys) : MeanInRange(numbers, SectionKeys[n])})]

\* the result of the earliest stage that names a section: the file name, the
\* keywords of the text, the mean of the question numbers
StagedSection(fromFileName, fromContent, fromNumbers) ==
    IF fromFileName # SectionOther THEN fromFileName
    ELSE IF fromContent # SectionOther THEN fromContent
    ELSE fromNumbers

\* C19: detectSection returns the result of the earliest stage that names a
\* section, in the order file name, keyword frequency of the text, mean of the
\* question numbers the catalog finds, the last mapping a mean inside the
\* question range of a section to that section; the result is a section or other
C19_EarliestStage ==
    pc = "tier1" =>
        /\ detectedSection \in {SectionKeys[n] : n \in 1..Len(SectionKeys)} \cup {SectionOther}
        /\ detectedSection
              = StagedSection(detectSectionFromFileName(fileName),
                              detectSectionFromContent(cleanedText),
                              MeanSection(CatalogNumbers(cleanedText)))

\* the questions of the files of the history that parsed successfully, in the
\* order of the files
Contributed(history) ==
    Flatten([i \in 1..Len(history) |->
                IF history[i].success THEN history[i].questions ELSE << >>])

C21_PagesInFlightBounded ==
    Cardinality(pagesInFlight) <= pageConcurrency(hardwareConcurrency)

\* C22: the normalizer is idempotent: applied to its own output it returns
\* that output unchanged
C22_NormalizeIdempotent ==
    \A i \in CallsOf("cleanJapaneseText") :
        cleanJapaneseText(applied[i].value) = applied[i].value

\* the loop is at a line that matches a numbering pattern
AtNumberingLine ==
    /\ scanPc = "loop"
    /\ lineIndex < Len(scanLines)
    /\ detectQuestionNumber(ScanLine).ok

\* the loop is at a line that matches no numbering pattern
AtOtherLine ==
    /\ scanPc = "loop"
    /\ lineIndex < Len(scanLines)
    /\ ~detectQuestionNumber(ScanLine).ok

\* the open question has a body of at least 5 characters and a number in range
Emittable(current) ==
    /\ current # << >>
    /\ Len(Trim(current[1].question)) >= 5
    /\ current[1].questionNumber >= questionNumberMin
    /\ current[1].questionNumber <= questionNumberMax

\* questions is earlier with exactly the open question added, when it is
\* emittable, and earlier otherwise
EmitsExactlyEmittable(earlier, current, later) ==
    /\ Len(later) = Len(earlier) + (IF Emittable(current) THEN 1 ELSE 0)
    /\ SubSeq(later, 1, Len(earlier)) = earlier
    /\ Emittable(current) => later[Len(later)].questionNumber = current[1].questionNumber

\* what a step of the scan does to the open question and to the questions
ScanStepAsStated ==
    /\ AtNumberingLine =>
          /\ EmitsExactlyEmittable(scanQuestions, currentQuestion, scanQuestions')
          /\ Len(currentQuestion') = 1
          /\ currentQuestion'[1].questionNumber = detectQuestionNumber(ScanLine).number
    /\ AtOtherLine =>
          /\ scanQuestions' = scanQuestions
          /\ Len(currentQuestion') = Len(currentQuestion)
    /\ (scanPc = "loop" /\ lineIndex = Len(scanLines)) =>
          EmitsExactlyEmittable(scanQuestions, currentQuestion, scanQuestions')

\* C23: the Tier 2 scan keeps at most one question open; a numbering line
\* closes the open question, emitting it exactly when its body has at least 5
\* characters and its number is in range, and opens a new one; other lines emit
\* nothing and open nothing, so that questions are emitted in the order of
\* their numbering lines, at most one per numbering line, and none from the
\* lines before the first numbering line
C23_OneOpenQuestion == [][ScanStepAsStated]_vars

\* the numbering lines of a sequence of lines
NumberingLines(ls) == { i \in 1..Len(ls) : detectQuestionNumber(ls[i]).ok }

\* a scan ended that began with a line of text, emitted a question and dropped
\* the open question of another numbering line
C23_Witness ==
    /\ scanPc = "returned"
    /\ 1 \notin NumberingLines(scanLines)
    /\ Len(scanQuestions) >= 1
    /\ Len(scanQuestions) < Cardinality(NumberingLines(scanLines))

\* baseScore + questionNumberFound + answerFound + explanationFound
fullTier2Confidence == baseScore + questionNumberFound + answerFound + explanationFound

\* C27: in the Tier 2 scan every bonus is applied at most once per question, so
\* that the confidence of the open question never exceeds baseScore +
\* questionNumberFound + answerFound + explanationFound = 100
C27_BonusesOnce ==
    currentQuestion # << >> =>
        currentQuestion[1].confidence <= fullTier2Confidence * CONF_UNIT

\* the number of the question line i opens
OpenedNumber(ls, i) == EmergencyMatch(EmergencyPattern(Trim(ls[i])), Trim(ls[i])).number

\* the lines that open an extracted question
OpeningLines(ls) == { i \in 1..Len(ls) : EmergencyQuestion(ls, i, ScanSection) # << >> }

\* the lines absorbed into the body of the question line i opens
AbsorbedBy(ls, i) ==
    AbsorbedLines(ls, i + 1, Min(i + absorbWindow - 1, Len(ls)), OpenedNumber(ls, i))

\* body followed by the lines of S, in the order of the lines
RECURSIVE WithLines(_, _, _)
WithLines(body, ls, S) ==
    IF S = {} THEN body
    ELSE WithLines(body \o << cSP >> \o Trim(ls[Least(S)]), ls, S \ {Least(S)})

\* the rest of line i after its number
RestOfLine(line, m) == Trim(From(line, m.len + 1))

RestOf(ls, i) == RestOfLine(Trim(ls[i]), EmergencyMatch(EmergencyPattern(Trim(ls[i])), Trim(ls[i])))

\* the text of a question is the rest of its line and the lines it absorbed
AbsorbAgrees ==
    \A c \in CallsOf("emergencySimpleExtraction") :
        \A i \in OpeningLines(applied[c].arguments[1]) :
            EmergencyQuestion(applied[c].arguments[1], i, ScanSection)[1].question
                = WithLines(RestOf(applied[c].arguments[1], i), applied[c].arguments[1],
                            AbsorbedBy(applied[c].arguments[1], i))

\* the lines after line i at which absorption is to stop: a plausible next
\* question number, or an answer- or explanation-looking line
StoppingLines(ls, i) ==
    { j \in (i + 1)..Len(ls) :
        \/ IsNextQuestion(Trim(ls[j]), OpenedNumber(ls, i))
        \/ LooksLikeAnswer(Trim(ls[j])) }

\* the absorbed lines of the question of line i are among the next 9 lines and
\* before every stopping line
AbsorbedAsStated(ls, i) ==
    \A j \in AbsorbedBy(ls, i) :
        /\ j >= i + 1
        /\ j <= i + 9
        /\ \A stop \in StoppingLines(ls, i) : j < stop

\* C24: in Tier 3 the body of the question opened at line i is built from line
\* i and from lines among i+1 .. i+9 only, and no line at or after the first
\* plausible next question number or answer- or explanation-looking line is
\* absorbed
C24_AbsorptionStops ==
    \A c \in CallsOf("emergencySimpleExtraction") :
        \A i \in OpeningLines(applied[c].arguments[1]) :
            AbsorbedAsStated(applied[c].arguments[1], i)

\* the lines of the question line i opens: its number line and its body
LinesOf(ls, i) == {i} \cup AbsorbedBy(ls, i)

\* C28: in Tier 3 every line belongs to at most one extracted question
C28_LineInOneQuestion ==
    \A c \in CallsOf("emergencySimpleExtraction") :
        \A i, k \in OpeningLines(applied[c].arguments[1]) :
            i # k => LinesOf(applied[c].arguments[1], i)
                         \cap LinesOf(applied[c].arguments[1], k) = {}

\* base x (0.5 + 0.5 x totalScore); base is a multiple of CONF_UNIT, which
\* 2 x Q_UNIT divides
StatedProduct(base, totalScore) == (base \div (2 * Q_UNIT)) * (Q_UNIT + totalScore)

\* 0.7 x base and 1.3 x base
StatedLowest(base) == (base \div 10) * 7

StatedHighest(base) == (base \div 10) * 13

\* v clamped into [0.7 x base, 1.3 x base]
StatedClamp(v, base) ==
    IF v < StatedLowest(base) THEN StatedLowest(base)
    ELSE IF v > StatedHighest(base) THEN StatedHighest(base)
    ELSE v

\* C25: the quality-based adjustment returns base x (0.5 + 0.5 x totalScore)
\* clamped into [0.7 x base, 1.3 x base], so that the adjusted confidence lies
\* in that interval for every base confidence and every totalScore in [0, 1]
C25_AdjustmentBounded ==
    \A c \in CallsOf("adjustConfidenceByQuality") :
        /\ applied[c].value
             = StatedClamp(StatedProduct(applied[c].arguments[1], applied[c].arguments[2]),
                           applied[c].arguments[1])
        /\ applied[c].value >= StatedLowest(applied[c].arguments[1])
        /\ applied[c].value <= StatedHighest(applied[c].arguments[1])

\* a call in which the clamp acted: the product was below 0.7 x base
C25_Witness ==
    \E c \in CallsOf("adjustConfidenceByQuality") :
        /\ applied[c].arguments[1] > 0
        /\ StatedProduct(applied[c].arguments[1], applied[c].arguments[2])
             < StatedLowest(applied[c].arguments[1])
        /\ applied[c].value = StatedLowest(applied[c].arguments[1])

\* C26: whenever a pattern yields a valid question the detector returns a
\* question, so that the fallback tiers are entered only when every pattern
\* yielded no question
C26_FallbackOnlyWhenNoYield ==
    (\E p \in 1..Len(attempts) : Len(attempts[p].questions) >= 1) =>
        \A k \in 1..Len(tiersRun) : tiersRun[k].tier = 1

\* C29: at most one extraction run is in progress at any time: no trigger
\* starts a run while another one has not ended
C29_OneRunAtATime == Cardinality(RunsInProgress) <= 1

\* the calls of progressCallback made for a file
ProgressCallsFor(file) ==
    { k \in 1..Len(progressCalls) : progressCalls[k].currentFile = file }

\* C30: extractFromMultipleFiles returns one {file, result} entry per input
\* file, in the order of the input list, whatever the order in which the
\* extractions completed and whichever failed; progressCallback is called
\* once per file, with completed counting 1..N
C30_OneEntryPerFileInOrder ==
    /\ \A k \in 1..Len(progressCalls) : progressCalls[k].completed = k
    /\ \A i \in 1..Len(files) : Cardinality(ProgressCallsFor(files[i])) <= 1
    /\ filePc = "returned" =>
          /\ Len(returned) = Len(files)
          /\ Len(progressCalls) = Len(files)
          /\ \A i \in 1..Len(files) :
                /\ returned[i].file = files[i]
                /\ \E k \in ProgressCallsFor(files[i]) :
                      returned[i].result = progressCalls[k].result

\* a call with four files has returned: the extractions did not complete in
\* the order of the list, one failed and one succeeded
C30_Witness ==
    /\ filePc = "returned"
    /\ Len(files) = MaxFileList
    /\ \E k \in 1..Len(progressCalls) : progressCalls[k].currentFile # files[k]
    /\ \E i \in 1..Len(returned) : returned[i].result.success
    /\ \E i \in 1..Len(returned) : ~returned[i].result.success
    /\ \E i \in 1..Len(files) : files[i] # i

====
